---- MODULE Spec2Model ----
(***************************************************************************)
(* Model of the defect-report bot (src/defect_bot.py, src/s3_storage.py,   *)
(* src/defect_categories.py, src/main.py): the aiogram FSM sessions, the   *)
(* detached summarization tasks, the sequential identifier counter and the *)
(* S3 record store.                                                        *)
(*                                                                         *)
(* Russian user-facing texts cannot be written in a TLA+ string; they are  *)
(* replaced by ASCII stand-ins, the original quoted in the comment.        *)
(*                                                                         *)
(* One action is one stretch of handler code between two points where the  *)
(* coroutine really suspends (a network round trip).  With MemoryStorage   *)
(* (src/main.py:41) the awaits on state.get_data/update_data/set_state/    *)
(* clear do not suspend.  The handlers of one session run one at a time    *)
(* (pc[s] = "idle" guards every event of session s); detached tasks and    *)
(* the handlers of other sessions interleave at the suspension points.     *)
(***************************************************************************)
EXTENDS Integers, Sequences, FiniteSets, TLC

\* ---------------------------------------------------------------- bounds
NumSessions == 2
MaxTasks == 2
MaxMedia == 2
MaxNumber == 1
MaxClock == 3

\* ------------------------------------------------------ program constants
MinDescriptionLen == 10
FallbackLen == 300
SummaryCap == 500

Sessions == 1 .. NumSessions

\* message.from_user.id of a user's message is the session's user; the
\* from_user of callback_query.message (a message the bot sent) is the bot.
BotUserId == 0

\* ------------------------------------------------------- optional values
\* Python None / a missing dict key is <<>>, a present value x is <<x>>.
None == << >>
Some(x) == << x >>
Val(o) == o[1]

\* Python truthiness of an optional string: None and "" are falsy.
Falsy(o) == o = None \/ o = Some("")

\* ----------------------------------------------------------------- text
Min(a, b) == IF a <= b THEN a ELSE b

\* text[:n]
Take(text, n) == SubSeq(text, 1, Min(n, Len(text)))

IsSpace(text, i) == SubSeq(text, i, i) = " " \/ SubSeq(text, i, i) = "\n"

RECURSIVE LStrip(_)
LStrip(text) ==
    IF Len(text) > 0 /\ IsSpace(text, 1)
    THEN LStrip(SubSeq(text, 2, Len(text)))
    ELSE text

RECURSIVE RStrip(_)
RStrip(text) ==
    IF Len(text) > 0 /\ IsSpace(text, Len(text))
    THEN RStrip(SubSeq(text, 1, Len(text) - 1))
    ELSE text

\* A strip() that leaves the text as it is
Unstripped(text) == text

\* str.strip()
Strip(text) == RStrip(LStrip(text))

\* str.upper() on the characters the modelled inputs use
UpperChar(c) ==
    IF c = "d" THEN "D"
    ELSE IF c = "c" THEN "C"
    ELSE IF c = "a" THEN "A"
    ELSE IF c = "n" THEN "N"
    ELSE IF c = "e" THEN "E"
    ELSE IF c = "l" THEN "L"
    ELSE c

RECURSIVE Upper(_)
Upper(text) ==
    IF Len(text) = 0 THEN ""
    ELSE UpperChar(SubSeq(text, 1, 1)) \o Upper(SubSeq(text, 2, Len(text)))

\* str.startswith
StartsWith(text, prefix) ==
    Len(text) >= Len(prefix) /\ SubSeq(text, 1, Len(prefix)) = prefix

\* `sub in text`
Contains(text, sub) ==
    \E i \in 1 .. (Len(text) - Len(sub) + 1) :
        SubSeq(text, i, i + Len(sub) - 1) = sub

\* ------------------------------------------------- defect_categories.py
OriginValues == {"supplier", "customer", "warehouse"}

\* ORIGIN_TITLES: "Прием товара от поставщика", "Прием от покупателя",
\* "Дефект обнаружился на складе"
OriginTitle(value) ==
    IF value = "supplier" THEN "Received from supplier"
    ELSE IF value = "customer" THEN "Received from customer"
    ELSE "Found in the warehouse"

\* TITLE_TO_ORIGIN.get(text): the origin value, or None
TitleToOrigin(text) ==
    IF \E v \in OriginValues : OriginTitle(v) = text
    THEN Some(CHOOSE v \in OriginValues : OriginTitle(v) = text)
    ELSE None

\* ------------------------------------------------------------- messages
TextMsg(text) == [kind |-> "text", body |-> text]
PhotoMsg(file_id) == [kind |-> "photo", body |-> file_id]
VideoMsg(file_id) == [kind |-> "video", body |-> file_id]
VoiceMsg(file_id) == [kind |-> "voice", body |-> file_id]

\* aiogram Command(name): a text message that is "/" + name
IsCommand(m, name) == m.kind = "text" /\ m.body = "/" \o name

\* The message handlers in the order they are registered (main.py:44 first,
\* then setup_defect_handlers top to bottom); aiogram runs the first one
\* whose filters all pass.
Handler(st, m) ==
    IF IsCommand(m, "start") THEN "cmd_start"
    ELSE IF IsCommand(m, "register_defect") THEN "cmd_register_defect"
    ELSE IF st = "origin" THEN "process_origin"
    ELSE IF st = "manufacturer" THEN "process_manufacturer"
    ELSE IF st = "model" THEN "process_model"
    ELSE IF st = "description" /\ m.kind = "text" /\ m.body # ""
        THEN "process_description_text"
    ELSE IF st = "description" /\ m.kind = "voice"
        THEN "process_description_voice"
    ELSE IF st = "photos" /\ m.kind = "photo" THEN "process_photo"
    ELSE IF st = "videos" /\ m.kind = "video" THEN "process_video"
    ELSE IF st = "videos" /\ IsCommand(m, "finish_defect")
        THEN "cmd_finish_defect"
    ELSE IF IsCommand(m, "view_defect") THEN "cmd_view_defect"
    ELSE IF st = "view_waiting_for_id" THEN "process_view_id"
    ELSE IF IsCommand(m, "edit_defect") THEN "cmd_edit_defect"
    ELSE IF IsCommand(m, "cancel") THEN "cmd_cancel"
    ELSE IF st = "edit_waiting_for_id" THEN "process_edit_id"
    ELSE IF st = "choose_field" THEN "process_edit_choice"
    ELSE IF st = "edit_manufacturer" THEN "process_edit_manufacturer"
    ELSE IF st = "edit_model" THEN "process_edit_model"
    ELSE IF st = "edit_description" /\ m.kind = "text" /\ m.body # ""
        THEN "process_edit_description_text"
    ELSE IF st = "edit_description" /\ m.kind = "voice"
        THEN "process_edit_description_voice"
    ELSE IF st = "edit_photos" /\ m.kind = "photo"
        THEN "process_edit_photos_collect"
    ELSE IF st = "edit_videos" /\ m.kind = "video"
        THEN "process_edit_videos_collect"
    ELSE IF st \in {"edit_photos", "edit_videos"} /\ IsCommand(m, "save_changes")
        THEN "cmd_save_media_changes"
    ELSE "unhandled"

\* ----------------------------------------------------------------- state
VARIABLES
    ai,        \* "on" iff openai_client and MODEL are set (defect_bot.py:31-34)
    state,     \* FSM state of each session; "none" is aiogram's None
    data,      \* FSM data of each session
    tasks,     \* detached generate_summary_and_store tasks of each session
    pc,        \* where the session's running handler is suspended, or "idle"
    loc,       \* local variables of the suspended handler; gating holds
               \* the process_photo handlers suspended in their gate call
    reply,     \* the last answer sent to each session's chat
    last_id,   \* content of last_id.txt in S3, None when the key is absent
    docs,      \* the data_<id>.json documents in S3, by defect id
    blobs,     \* the media objects in S3: [id, filename, file_id]
    clock,     \* datetime.now()
    issued,    \* history: what generate_defect_id has returned, in call
               \* order: [number, failed], failed iff the counter read or
               \* write of that call failed
    reported   \* history: the acceptances the bot has announced:
               \* [id, manufacturer, model, raw_description] of the Draft

vars == << ai, state, data, tasks, pc, loc, reply, last_id, docs,
           blobs, clock, issued, reported >>

store == << last_id, docs, blobs >>

\* FSM data after state.clear(); a missing list key reads as [] everywhere
\* (data.get("photo_file_ids", [])).
EmptyData ==
    [ origin |-> None, manufacturer |-> None, model |-> None,
      raw_description |-> None, summary_description |-> None,
      original_description |-> None,
      photo_file_ids |-> << >>, video_file_ids |-> << >>,
      defect_id |-> None, defect_data |-> None ]

NoLocals ==
    [ data |-> EmptyData, summary |-> None, user_id |-> BotUserId,
      last_number |-> 0, defect_id |-> "", raced |-> FALSE,
      failed |-> FALSE, gating |-> << >> ]

Reply(kind, arg) == [kind |-> kind, arg |-> arg]

\* A generate_defect_id that suspended between its two S3 calls: no handler
\* position would hold the event loop.
Suspending(p) == FALSE

\* The handler positions inside generate_defect_id, a plain `def` with no
\* await between its two S3 calls: a handler there holds the event loop.
Synchronous(p) == p \in {"gen_read", "gen_write"}

\* No handler of a session other than s holds the event loop.
LoopFreeFor(s) == \A t \in Sessions \ {s} : ~Synchronous(pc[t])

\* No handler holds the event loop.
LoopFree == \A t \in Sessions : ~Synchronous(pc[t])

\* With the AI unconfigured summarize_defect_text never suspends, so a
\* detached task has written its summary before the next event is handled.
TasksSettled == ai = "on" \/ \A s \in Sessions : tasks[s] = << >>

\* A user event of session s can be dispatched.
Ready(s) == LoopFree /\ TasksSettled /\ pc[s] = "idle"

\* state.clear(): the tasks started before it now target a cleared slot.
Orphaned(ts) == [i \in DOMAIN ts |-> [ts[i] EXCEPT !.orphan = TRUE]]

\* ------------------------------------------------------------ enrichment
Configured == ai = "on"

\* What the chat-completion call of summarize_defect_text can do: raise
\* (None), or answer with some content.  The content is a text about the
\* input, so different inputs get different summaries, or it is blank:
\* nothing in the call makes the model write anything.  max_tokens=200
\* limits its tokens, not its characters: the answer to a long input can
\* be longer than SummaryCap.
AiSummary(raw_text) ==
    "Summary of " \o (IF Len(raw_text) > SummaryCap THEN raw_text
                      ELSE Take(raw_text, 4))
SummaryOutcomes(raw_text) == {None, Some(AiSummary(raw_text)), Some(" ")}

\* A summarize_defect_text that returns its text without cutting it
SummarizeUncut(raw_text, outcome) ==
    IF ~Configured \/ outcome = None THEN Strip(raw_text)
    ELSE Strip(Val(outcome))

\* summarize_defect_text(raw_text), given the outcome of the call
SummarizeDefectText(raw_text, outcome) ==
    IF ~Configured THEN Take(Strip(raw_text), FallbackLen)
    ELSE IF outcome = None THEN Take(Strip(raw_text), FallbackLen)
    ELSE Take(Strip(Val(outcome)), SummaryCap)

\* The outcomes the enrichment service has when the call is reached at all.
Outcomes(raw_text) == IF Configured THEN SummaryOutcomes(raw_text) ELSE {None}

\* Every text summarize_defect_text(raw_text) can return.
SummariesOf(raw_text) ==
    {SummarizeDefectText(raw_text, o) : o \in Outcomes(raw_text)}

\* What the vision call of analyze_image_quality_simple can do: answer
\* with is_acceptable true ("accept") or false ("reject"), answer with a
\* JSON object that has no is_acceptable ("no_verdict"), or raise, which
\* includes an answer json.loads cannot parse ("error").
GateOutcomes == {"accept", "reject", "no_verdict", "error"}

\* A gate that accepts whatever the vision call says
AnalyzeImageQualityAlways(outcome) == TRUE

\* analyze_image_quality_simple(photo_data)[0]
AnalyzeImageQualitySimple(outcome) ==
    IF ~Configured THEN TRUE
    ELSE outcome = "accept"

\* analyze_image_quality_simple(photo_data)[1], the explanation: "disabled"
\* stands for the fixed text of the unconfigured gate, "error" for the text
\* of the except branch, "analysis" for the answer's analysis field or its
\* default ("Анализ не предоставлен").
AnalyzeImageQualityAnalysis(outcome) ==
    IF ~Configured THEN "disabled"
    ELSE IF outcome = "error" THEN "error"
    ELSE "analysis"

\* ----------------------------------------------------------- the store
CounterRange == 0 .. (MaxNumber + NumSessions)

\* int(content) of last_id.txt; 0 when the content is no number
ParseNumber(content) ==
    IF \E n \in CounterRange : ToString(n) = Strip(content)
    THEN CHOOSE n \in CounterRange : ToString(n) = Strip(content)
    ELSE 0

\* S3Storage.get_last_defect_number(): "ok" reads the key (0 when it is
\* absent or holds no number), "client_error" is a ClientError other than
\* NoSuchKey, answered with 0
GetLastDefectNumberResult(result) ==
    IF result = "ok" /\ last_id # None THEN ParseNumber(Val(last_id)) ELSE 0

\* put_object of data_<id>.json: the whole document is replaced
\* A put that is lost
DropDoc(ds, id, doc) == ds

PutDoc(ds, id, doc) ==
    [i \in (DOMAIN ds) \cup {id} |-> IF i = id THEN doc ELSE ds[i]]

\* put_object of one media file of a defect folder
PutBlob(bs, id, filename, file_id) ==
    {b \in bs : ~(b.id = id /\ b.filename = filename)}
        \cup {[id |-> id, filename |-> filename, file_id |-> file_id]}

\* A load that answers an unknown identifier with some stored document
LoadDefectJsonAny(defect_id, result) ==
    IF result = "ok" /\ DOMAIN docs # {}
    THEN Some(docs[IF defect_id \in DOMAIN docs THEN defect_id
                   ELSE CHOOSE id \in DOMAIN docs : TRUE])
    ELSE None

\* S3Storage.load_defect_json(defect_id): the document, or None when the
\* key is absent or the read ends in a ClientError
LoadDefectJson(defect_id, result) ==
    IF result = "ok" /\ defect_id \in DOMAIN docs
    THEN Some(docs[defect_id]) ELSE None

\* data.get(key, "") of an optional text
TextOf(o) == IF o = None THEN "" ELSE Val(o)

\* The number last_id.txt holds now (0 when absent or unreadable)
CounterValue == IF last_id = None THEN 0 ELSE ParseNumber(Val(last_id))

\* ------------------------------------------------------ session updates
SetSession(s, st, d, r) ==
    /\ state' = [state EXCEPT ![s] = st]
    /\ data' = [data EXCEPT ![s] = d]
    /\ reply' = [reply EXCEPT ![s] = r]

\* A set_state that leaves the FSM data as it is
KeepSession(s, st, r) ==
    /\ SetSession(s, st, data[s], r)
    /\ tasks' = tasks

\* state.clear() followed by an optional set_state
ClearSession(s, st, r) ==
    /\ SetSession(s, st, EmptyData, r)
    /\ tasks' = [tasks EXCEPT ![s] = Orphaned(tasks[s])]

\* ------------------------------------------------------------- Register
\* cmd_register_defect
CmdRegisterDefect(s) ==
    /\ Ready(s)
    /\ Handler(state[s], TextMsg("/register_defect")) = "cmd_register_defect"
    /\ ClearSession(s, "origin", Reply("ask_origin", ""))
    /\ UNCHANGED << ai, pc, loc, store, clock, issued, reported >>

\* process_origin
ProcessOrigin(s, m) ==
    /\ Ready(s)
    /\ m.kind = "text"
    /\ Handler(state[s], m) = "process_origin"
    /\ LET origin == TitleToOrigin(Strip(m.body)) IN
       IF origin = None
       THEN SetSession(s, state[s], data[s], Reply("choose_origin", ""))
       ELSE SetSession(s, "manufacturer",
                       [data[s] EXCEPT !.origin = origin],
                       Reply("ask_manufacturer", ""))
    /\ UNCHANGED << ai, tasks, pc, loc, store, clock, issued, reported >>

\* process_origin_callback: callback data "origin_" + value; there is no
\* check of the current state
ProcessOriginCallback(s, value) ==
    /\ Ready(s)
    /\ IF value \notin OriginValues
       THEN SetSession(s, state[s], data[s], Reply("unknown_origin", ""))
       ELSE SetSession(s, "manufacturer",
                       [data[s] EXCEPT !.origin = Some(value)],
                       Reply("ask_manufacturer", ""))
    /\ UNCHANGED << ai, tasks, pc, loc, store, clock, issued, reported >>

\* process_manufacturer
ProcessManufacturer(s, m) ==
    /\ Ready(s)
    /\ m.kind = "text"
    /\ Handler(state[s], m) = "process_manufacturer"
    /\ LET manufacturer == Strip(m.body) IN
       IF manufacturer = ""
       THEN SetSession(s, state[s], data[s], Reply("manufacturer_empty", ""))
       ELSE SetSession(s, "model",
                       [data[s] EXCEPT !.manufacturer = Some(manufacturer)],
                       Reply("ask_model", ""))
    /\ UNCHANGED << ai, tasks, pc, loc, store, clock, issued, reported >>

\* process_model
ProcessModel(s, m) ==
    /\ Ready(s)
    /\ m.kind = "text"
    /\ Handler(state[s], m) = "process_model"
    /\ LET model == Strip(m.body) IN
       IF model = ""
       THEN SetSession(s, state[s], data[s], Reply("model_empty", ""))
       ELSE SetSession(s, "description",
                       [data[s] EXCEPT !.model = Some(model)],
                       Reply("ask_description", ""))
    /\ UNCHANGED << ai, tasks, pc, loc, store, clock, issued, reported >>

\* asyncio.create_task(generate_summary_and_store()) for `text`
NewTask(text) == [text |-> text, orphan |-> FALSE]

\* A process_description_text without the length check
ProcessDescriptionTextUnchecked(s, m) ==
    /\ Ready(s)
    /\ Handler(state[s], m) = "process_description_text"
    /\ Len(tasks[s]) < MaxTasks
    /\ SetSession(s, "photos",
                  [data[s] EXCEPT !.raw_description = Some(Strip(m.body)),
                                  !.photo_file_ids = << >>],
                  Reply("ask_photos", ""))
    /\ tasks' = [tasks EXCEPT ![s] = Append(@, NewTask(Strip(m.body)))]
    /\ UNCHANGED << ai, pc, loc, store, clock, issued, reported >>

\* process_description_text
ProcessDescriptionText(s, m) ==
    /\ Ready(s)
    /\ Handler(state[s], m) = "process_description_text"
    /\ LET description == Strip(m.body) IN
       IF Len(description) < MinDescriptionLen
       THEN /\ SetSession(s, state[s], data[s], Reply("description_short", ""))
            /\ UNCHANGED tasks
       ELSE /\ Len(tasks[s]) < MaxTasks
            /\ SetSession(s, "photos",
                          [data[s] EXCEPT !.raw_description = Some(description),
                                          !.photo_file_ids = << >>],
                          Reply("ask_photos", ""))
            /\ tasks' = [tasks EXCEPT ![s] = Append(@, NewTask(description))]
    /\ UNCHANGED << ai, pc, loc, store, clock, issued, reported >>

\* A detached task that ends without writing its summary
GenerateSummaryAndDrop(s, i, outcome) ==
    /\ LoopFree
    /\ i \in DOMAIN tasks[s]
    /\ outcome \in Outcomes(tasks[s][i].text)
    /\ tasks' = [tasks EXCEPT ![s] =
                    SubSeq(@, 1, i - 1) \o SubSeq(@, i + 1, Len(@))]
    /\ UNCHANGED << ai, state, data, pc, loc, reply, store, clock, issued,
                    reported >>

\* generate_summary_and_store (defect_bot.py:532 and :634), the detached
\* task: its i-th instance of session s finishes with `outcome` and writes.
GenerateSummaryAndStore(s, i, outcome) ==
    /\ LoopFree
    /\ i \in DOMAIN tasks[s]
    /\ outcome \in Outcomes(tasks[s][i].text)
    /\ data' = [data EXCEPT ![s].summary_description =
                    Some(SummarizeDefectText(tasks[s][i].text, outcome))]
    /\ tasks' = [tasks EXCEPT ![s] =
                    SubSeq(@, 1, i - 1) \o SubSeq(@, i + 1, Len(@))]
    /\ UNCHANGED << ai, state, pc, loc, reply, store, clock, issued, reported >>

\* transcribe_voice(voice_bytes): "" when the client is missing or the call
\* raises (None), else the stripped transcript
TranscribeVoice(outcome) ==
    IF ai = "off" \/ outcome = None THEN "" ELSE Strip(Val(outcome))

\* process_description_voice: `heard` is what the transcription call gives,
\* `outcome` what the summarization call gives, `shown` whether the
\* edit_message_text that shows the two candidates worked.  The candidates
\* are stored before that message is sent and the state is set after it;
\* when the send raises, the except branch answers with the error.
ProcessDescriptionVoice(s, m, heard, outcome, shown) ==
    /\ Ready(s)
    /\ Handler(state[s], m) = "process_description_voice"
    /\ LET description == TranscribeVoice(heard) IN
       IF description = "" \/ Len(Strip(description)) < MinDescriptionLen
       THEN SetSession(s, state[s], data[s], Reply("voice_failed", ""))
       ELSE /\ outcome \in Outcomes(description)
            /\ SetSession(s,
                   IF shown THEN "choosing_description" ELSE state[s],
                   [data[s] EXCEPT
                       !.original_description = Some(description),
                       !.summary_description =
                           Some(SummarizeDefectText(description, outcome))],
                   IF shown THEN Reply("choose_description", description)
                   ELSE Reply("voice_error", ""))
    /\ UNCHANGED << ai, tasks, pc, loc, store, clock, issued, reported >>

\* handle_desc_original_universal -> _handle_desc_original_registration
HandleDescOriginalRegistration(s) ==
    /\ Ready(s)
    /\ state[s] = "choosing_description"
    /\ IF Falsy(data[s].original_description)
       THEN /\ SetSession(s, state[s], data[s], Reply("original_missing", ""))
            /\ UNCHANGED tasks
       ELSE /\ Len(tasks[s]) < MaxTasks
            /\ SetSession(s, "photos",
                   [data[s] EXCEPT
                       !.raw_description = data[s].original_description,
                       !.photo_file_ids = << >>],
                   Reply("ask_photos", "original"))
            /\ tasks' = [tasks EXCEPT ![s] =
                   Append(@, NewTask(Val(data[s].original_description)))]
    /\ UNCHANGED << ai, pc, loc, store, clock, issued, reported >>

\* handle_desc_summary_universal -> _handle_desc_summary_registration
HandleDescSummaryRegistration(s) ==
    /\ Ready(s)
    /\ state[s] = "choosing_description"
    /\ IF Falsy(data[s].summary_description)
       THEN SetSession(s, state[s], data[s], Reply("summary_missing", ""))
       ELSE SetSession(s, "photos",
                [data[s] EXCEPT
                    !.raw_description = data[s].summary_description,
                    !.photo_file_ids = << >>],
                Reply("ask_photos", "summary"))
    /\ UNCHANGED << ai, tasks, pc, loc, store, clock, issued, reported >>

\* handle_desc_rerecord_universal -> _handle_desc_rerecord_registration
HandleDescRerecordRegistration(s) ==
    /\ Ready(s)
    /\ state[s] = "choosing_description"
    /\ SetSession(s, "description",
            [data[s] EXCEPT !.original_description = None,
                            !.summary_description = None],
            Reply("ask_description", "rerecord"))
    /\ UNCHANGED << ai, tasks, pc, loc, store, clock, issued, reported >>

\* process_photo: `gate` is what the download and the vision call do
ProcessPhoto(s, m, gate) ==
    /\ Ready(s)
    /\ Handler(state[s], m) = "process_photo"
    /\ IF gate = "download_error"
       THEN SetSession(s, state[s], data[s], Reply("photo_error", ""))
       ELSE IF AnalyzeImageQualitySimple(gate)
       THEN /\ Len(data[s].photo_file_ids) < MaxMedia
            /\ SetSession(s, state[s],
                   [data[s] EXCEPT !.photo_file_ids = Append(@, m.body)],
                   Reply("photo_accepted",
                         ToString(Len(data[s].photo_file_ids) + 1)))
       ELSE SetSession(s, state[s], data[s],
                       Reply("photo_rejected",
                             AnalyzeImageQualityAnalysis(gate)))
    /\ UNCHANGED << ai, tasks, pc, loc, store, clock, issued, reported >>

\* process_photo up to its suspension in the download and the vision call
\* (defect_bot.py:706-722): the handler has read the FSM data and holds
\* its photo list.  Telegram delivers the photos of an album as separate
\* messages and start_polling handles every update in a task of its own,
\* so several handlers of one session can be suspended here at once.
ProcessPhotoStart(s, m) ==
    /\ Ready(s)
    /\ Handler(state[s], m) = "process_photo"
    /\ Len(loc[s].gating) < MaxMedia
    /\ loc' = [loc EXCEPT ![s].gating =
                  Append(@, [file_id |-> m.body])]
    /\ reply' = [reply EXCEPT ![s] = Reply("analyzing", m.body)]
    /\ UNCHANGED << ai, state, data, tasks, pc, store, clock, issued,
                    reported >>

\* process_photo from line 722 on, for the k-th suspended handler: `gate`
\* as in ProcessPhoto.  The list the handler read is the object the
\* storage holds (MemoryStorage.get_data copies the dict, not the values
\* in it), so the append lands on what the storage holds now; the session
\* is taken not to have replaced its list since the handler read it.
ProcessPhotoGated(s, k, gate) ==
    /\ LoopFree
    /\ k \in DOMAIN loc[s].gating
    /\ LET h == loc[s].gating[k]
           photo_ids == data[s].photo_file_ids
       IN
       IF gate = "download_error"
       THEN /\ reply' = [reply EXCEPT ![s] = Reply("photo_error", "")]
            /\ data' = data
       ELSE IF AnalyzeImageQualitySimple(gate)
       THEN /\ Len(photo_ids) < MaxMedia
            /\ data' = [data EXCEPT ![s].photo_file_ids =
                           Append(photo_ids, h.file_id)]
            /\ reply' = [reply EXCEPT ![s] =
                           Reply("photo_accepted",
                                 ToString(Len(photo_ids) + 1))]
       ELSE /\ reply' = [reply EXCEPT ![s] =
                           Reply("photo_rejected",
                                 AnalyzeImageQualityAnalysis(gate))]
            /\ data' = data
    /\ loc' = [loc EXCEPT ![s].gating =
                  SubSeq(@, 1, k - 1) \o SubSeq(@, k + 1, Len(@))]
    /\ UNCHANGED << ai, state, tasks, pc, store, clock, issued, reported >>

\* A photos_next that keeps the video list it finds
HandlePhotosNextKeeping(s) ==
    /\ Ready(s)
    /\ state[s] = "photos"
    /\ SetSession(s, "videos", data[s], Reply("ask_videos", ""))
    /\ UNCHANGED << ai, tasks, pc, loc, store, clock, issued, reported >>

\* A photos_next that wants at least one accepted photo
HandlePhotosNextWithPhoto(s) ==
    /\ Ready(s)
    /\ state[s] = "photos"
    /\ data[s].photo_file_ids # << >>
    /\ SetSession(s, "videos", [data[s] EXCEPT !.video_file_ids = << >>],
                  Reply("ask_videos", ""))
    /\ UNCHANGED << ai, tasks, pc, loc, store, clock, issued, reported >>

\* A photos_next that does not look at the state
HandlePhotosNextUnguarded(s) ==
    /\ Ready(s)
    /\ SetSession(s, "videos", [data[s] EXCEPT !.video_file_ids = << >>],
                  Reply("ask_videos", ""))
    /\ UNCHANGED << ai, tasks, pc, loc, store, clock, issued, reported >>

\* handle_photos_next
HandlePhotosNext(s) ==
    /\ Ready(s)
    /\ state[s] = "photos"
    /\ SetSession(s, "videos", [data[s] EXCEPT !.video_file_ids = << >>],
                  Reply("ask_videos", ""))
    /\ UNCHANGED << ai, tasks, pc, loc, store, clock, issued, reported >>

\* process_video
ProcessVideo(s, m) ==
    /\ Ready(s)
    /\ Handler(state[s], m) = "process_video"
    /\ Len(data[s].video_file_ids) < MaxMedia
    /\ SetSession(s, state[s],
           [data[s] EXCEPT !.video_file_ids = Append(@, m.body)],
           Reply("video_accepted", ToString(Len(data[s].video_file_ids) + 1)))
    /\ UNCHANGED << ai, tasks, pc, loc, store, clock, issued, reported >>

\* A Back that restarts the flow at its first step
RegBackToStart(st) == "origin"

\* The state handle_reg_back moves to from `st`
RegBackTarget(st) ==
    IF st = "manufacturer" THEN "origin"
    ELSE IF st = "model" THEN "manufacturer"
    ELSE IF st = "description" THEN "model"
    ELSE IF st = "choosing_description" THEN "description"
    ELSE IF st = "photos" THEN "description"
    ELSE IF st = "videos" THEN "photos"
    ELSE st

\* handle_reg_back: the inline button, no state filter; without a state,
\* and in a state that is not one of Register, it only acknowledges the
\* button
HandleRegBack(s) ==
    /\ Ready(s)
    /\ IF state[s] = "origin"
       THEN ClearSession(s, "none", Reply("cancelled", ""))
       ELSE /\ SetSession(s, RegBackTarget(state[s]),
                   IF state[s] = "choosing_description"
                   THEN [data[s] EXCEPT !.original_description = None,
                                        !.summary_description = None]
                   ELSE data[s],
                   IF RegBackTarget(state[s]) = state[s] THEN reply[s]
                   ELSE Reply("back", RegBackTarget(state[s])))
            /\ UNCHANGED tasks
    /\ UNCHANGED << ai, pc, loc, store, clock, issued, reported >>

\* ------------------------------------------------------------- Finalize
\* _finalize_defect up to its first suspension: read the FSM data; with no
\* summary there, call summarize_defect_text, which suspends in the AI call
\* when the AI is configured; otherwise go on into generate_defect_id.
\* `user_id` is message.from_user.id of the message passed in.
FinalizeStart(s, user_id) ==
    /\ CounterValue < MaxNumber
    /\ clock < MaxClock
    /\ LET d == data[s] IN
       IF Falsy(d.summary_description) /\ Configured
       THEN /\ pc' = [pc EXCEPT ![s] = "fin_summarize"]
            /\ loc' = [loc EXCEPT ![s] =
                   [NoLocals EXCEPT !.data = d, !.user_id = user_id,
                                    !.gating = loc[s].gating]]
       ELSE /\ pc' = [pc EXCEPT ![s] = "gen_read"]
            /\ loc' = [loc EXCEPT ![s] =
                   [NoLocals EXCEPT
                       !.data = d, !.user_id = user_id,
                       !.gating = loc[s].gating,
                       !.summary =
                           IF Falsy(d.summary_description)
                           THEN Some(SummarizeDefectText(
                                    TextOf(d.raw_description), None))
                           ELSE d.summary_description]]
    /\ UNCHANGED << ai, state, data, tasks, reply, store, clock, issued, reported >>

\* cmd_finish_defect: the /finish_defect message in state videos
CmdFinishDefect(s) ==
    /\ Ready(s)
    /\ Handler(state[s], TextMsg("/finish_defect")) = "cmd_finish_defect"
    /\ FinalizeStart(s, s)

\* handle_videos_finish: the inline button; _finalize_defect gets
\* callback_query.message, a message sent by the bot
HandleVideosFinish(s) ==
    /\ Ready(s)
    /\ state[s] = "videos"
    /\ FinalizeStart(s, BotUserId)

\* _finalize_defect line 826: the awaited summarize_defect_text returns
FinalizeSummarized(s, outcome) ==
    /\ LoopFree
    /\ pc[s] = "fin_summarize"
    /\ outcome \in Outcomes(TextOf(loc[s].data.raw_description))
    /\ loc' = [loc EXCEPT ![s].summary =
           Some(SummarizeDefectText(TextOf(loc[s].data.raw_description),
                                    outcome))]
    /\ pc' = [pc EXCEPT ![s] = "gen_read"]
    /\ UNCHANGED << ai, state, data, tasks, reply, store, clock, issued, reported >>

\* generate_defect_id line 47: s3_storage.get_last_defect_number().
\* "raise" is an exception that is no ClientError (the endpoint cannot be
\* connected to): nothing catches it and the handler ends.
\* raced records whether two sessions are between the read and the write
\* of the counter at the same time.
GetLastDefectNumber(s, result) ==
    /\ pc[s] = "gen_read"
    /\ LoopFreeFor(s)
    /\ IF result = "raise"
       THEN /\ pc' = [pc EXCEPT ![s] = "idle"]
            /\ loc' = [loc EXCEPT ![s] =
                       [NoLocals EXCEPT !.gating = loc[s].gating]]
       ELSE /\ pc' = [pc EXCEPT ![s] = "gen_write"]
            /\ loc' = [t \in Sessions |->
                   IF t = s
                   THEN [loc[s] EXCEPT
                            !.last_number = GetLastDefectNumberResult(result),
                            !.failed = result # "ok",
                            !.raced = \E u \in Sessions \ {s} :
                                         pc[u] = "gen_write"]
                   ELSE IF pc[t] = "gen_write"
                   THEN [loc[t] EXCEPT !.raced = TRUE]
                   ELSE loc[t]]
    /\ UNCHANGED << ai, state, data, tasks, reply, store, clock, issued,
                    reported >>

\* generate_defect_id lines 48-50: new_number = last_number + 1,
\* s3_storage.save_last_defect_number(new_number), which answers False for
\* whatever went wrong ("error") and whose answer is not looked at, return
\* "D" + new_number; then _finalize_defect suspends in message.answer.
SaveLastDefectNumber(s, result) ==
    /\ pc[s] = "gen_write"
    /\ LoopFreeFor(s)
    /\ LET new_number == loc[s].last_number + 1 IN
       /\ last_id' = IF result = "ok" THEN Some(ToString(new_number))
                     ELSE last_id
       /\ loc' = [loc EXCEPT ![s].defect_id = "D" \o ToString(new_number),
                              ![s].failed = @ \/ result # "ok"]
       /\ issued' = Append(issued,
              [number |-> new_number,
               failed |-> loc[s].failed \/ result # "ok"])
    /\ pc' = [pc EXCEPT ![s] = "fin_save"]
    /\ UNCHANGED << ai, state, data, tasks, reply, docs, blobs, clock,
                    reported >>

\* Uploaded files named after the media they hold instead of their ordinal
MediaEntriesByFileId(ids, prefix, ext, failed, idx) ==
    [i \in DOMAIN ids |->
        [filename |-> prefix \o ids[i] \o ext, file_id |-> ids[i]]]

\* The uploaded files of save_defect_to_s3 / _save_media_changes_common:
\* file idx of `ids` becomes <prefix><idx><ext>, and is listed only when
\* save_defect_file returned a key (idx not in `failed`).
RECURSIVE MediaEntries(_, _, _, _, _)
MediaEntries(ids, prefix, ext, failed, idx) ==
    IF idx > Len(ids) THEN << >>
    ELSE (IF idx \in failed THEN << >>
          ELSE << [filename |-> prefix \o ToString(idx) \o ext,
                   file_id |-> ids[idx]] >>)
         \o MediaEntries(ids, prefix, ext, failed, idx + 1)

RECURSIVE PutBlobs(_, _, _, _)
PutBlobs(bs, id, entries, idx) ==
    IF idx > Len(entries) THEN bs
    ELSE PutBlobs(PutBlob(bs, id, entries[idx].filename, entries[idx].file_id),
                  id, entries, idx + 1)

\* The document save_defect_to_s3 builds (lines 346-359)
DefectData(defect_id, user_id, d, summary, photos, videos, now) ==
    [ id |-> defect_id, created_at |-> now, updated_at |-> now,
      user_id |-> user_id, origin |-> TextOf(d.origin),
      manufacturer |-> TextOf(d.manufacturer), model |-> TextOf(d.model),
      raw_description |-> TextOf(d.raw_description),
      summary_description |-> summary,
      photos |-> photos, videos |-> videos ]

\* _finalize_defect lines 832-854: save_defect_to_s3, state.clear(), the
\* answer with the identifier.  photo_failed / video_failed are the uploads
\* for which save_defect_file returned None, put_ok is what
\* save_defect_json returned; neither is looked at by the code.
\* DefectOrigin(None) raises before anything is saved.
FinalizeSave(s, photo_failed, video_failed, put_ok) ==
    /\ LoopFree
    /\ pc[s] = "fin_save"
    /\ LET d == loc[s].data
           id == loc[s].defect_id
           photos == MediaEntries(d.photo_file_ids, "photo_", ".jpg",
                                  photo_failed, 1)
           videos == MediaEntries(d.video_file_ids, "video_", ".mp4",
                                  video_failed, 1)
           doc == DefectData(id, loc[s].user_id, d, TextOf(loc[s].summary),
                             photos, videos, clock)
       IN
       /\ photo_failed \subseteq DOMAIN d.photo_file_ids
       /\ video_failed \subseteq DOMAIN d.video_file_ids
       /\ IF d.origin = None
          THEN UNCHANGED << state, data, tasks, reply, docs, blobs,
                            reported >>
          ELSE /\ blobs' = PutBlobs(PutBlobs(blobs, id, photos, 1),
                                    id, videos, 1)
               /\ docs' = IF put_ok THEN PutDoc(docs, id, doc) ELSE docs
               /\ ClearSession(s, "none", Reply("accepted", id))
               /\ reported' = reported \cup
                      {[id |-> id, manufacturer |-> doc.manufacturer,
                        model |-> doc.model,
                        raw_description |-> doc.raw_description]}
    /\ pc' = [pc EXCEPT ![s] = "idle"]
    /\ loc' = [loc EXCEPT ![s] =
                       [NoLocals EXCEPT !.gating = loc[s].gating]]
    /\ clock' = clock + 1
    /\ UNCHANGED << ai, last_id, issued >>

\* ----------------------------------------------------------------- Init
Init ==
    /\ ai \in {"on", "off"}
    /\ state = [s \in Sessions |-> "none"]
    /\ data = [s \in Sessions |-> EmptyData]
    /\ tasks = [s \in Sessions |-> << >>]
    /\ pc = [s \in Sessions |-> "idle"]
    /\ loc = [s \in Sessions |-> NoLocals]
    /\ reply = [s \in Sessions |-> Reply("", "")]
    /\ last_id = None
    /\ docs = << >>
    /\ blobs = {}
    /\ clock = 1
    /\ issued = << >>
    /\ reported = {}

\* cmd_cancel: reached only when no handler registered before it takes
\* the message
CmdCancel(s) ==
    /\ Ready(s)
    /\ Handler(state[s], TextMsg("/cancel")) = "cmd_cancel"
    /\ ClearSession(s, "none", Reply("cancelled", ""))
    /\ UNCHANGED << ai, pc, loc, store, clock, issued, reported >>

\* ----------------------------------------------------------------- View
\* A view text that shows the summary whatever hide_summary says
FormatDefectWithSummary(defect_data, hide_summary) ==
    "Defect ID: " \o defect_data.id \o "\n"
    \o "\n"
    \o "Origin: " \o defect_data.origin \o "\n"
    \o "1. Manufacturer: " \o defect_data.manufacturer \o "\n"
    \o "2. Model: " \o defect_data.model \o "\n"
    \o "3. What happened: " \o defect_data.raw_description \o "\n"
    \o "4. Summary (AI): " \o defect_data.summary_description \o "\n"
    \o "4. Photos: " \o ToString(Len(defect_data.photos)) \o " pcs.\n"
    \o "5. Videos: " \o ToString(Len(defect_data.videos)) \o " pcs."

\* format_defect_for_view(defect_data, hide_summary).  The labels stand for
\* "ID дефекта", "Образование дефекта", "Производитель", "Модель",
\* "Что случилось", "Краткое описание (AI)", "Фото дефекта: N шт.",
\* "Видео дефекта: N шт.".
FormatDefectForView(defect_data, hide_summary) ==
    "Defect ID: " \o defect_data.id \o "\n"
    \o "\n"
    \o "Origin: " \o defect_data.origin \o "\n"
    \o "1. Manufacturer: " \o defect_data.manufacturer \o "\n"
    \o "2. Model: " \o defect_data.model \o "\n"
    \o "3. What happened: " \o defect_data.raw_description \o "\n"
    \o (IF hide_summary THEN ""
        ELSE "4. Summary (AI): " \o defect_data.summary_description \o "\n")
    \o "4. Photos: " \o ToString(Len(defect_data.photos)) \o " pcs.\n"
    \o "5. Videos: " \o ToString(Len(defect_data.videos)) \o " pcs."

\* cmd_view_defect
CmdViewDefect(s) ==
    /\ Ready(s)
    /\ Handler(state[s], TextMsg("/view_defect")) = "cmd_view_defect"
    /\ ClearSession(s, "view_waiting_for_id", Reply("ask_view_id", ""))
    /\ UNCHANGED << ai, pc, loc, store, clock, issued, reported >>

\* process_view_id: the reply kept is the record text; the media and the
\* edit button that follow it are not modelled.
ProcessViewId(s, m, result) ==
    /\ Ready(s)
    /\ m.kind = "text"
    /\ Handler(state[s], m) = "process_view_id"
    /\ LET defect_id == Upper(Strip(m.body))
           json_str == LoadDefectJson(defect_id, result)
       IN
       IF json_str = None
       THEN /\ SetSession(s, state[s], data[s], Reply("not_found", defect_id))
            /\ UNCHANGED tasks
       ELSE ClearSession(s, "none",
                Reply("view", FormatDefectForView(Val(json_str), TRUE)))
    /\ UNCHANGED << ai, pc, loc, store, clock, issued, reported >>

\* ----------------------------------------------------------------- Edit
\* cmd_edit_defect
CmdEditDefect(s) ==
    /\ Ready(s)
    /\ Handler(state[s], TextMsg("/edit_defect")) = "cmd_edit_defect"
    /\ ClearSession(s, "edit_waiting_for_id", Reply("ask_edit_id", ""))
    /\ UNCHANGED << ai, pc, loc, store, clock, issued, reported >>

\* _start_edit_flow
StartEditFlow(s, defect_id, defect_data) ==
    SetSession(s, "choose_field",
        [data[s] EXCEPT !.defect_id = Some(defect_id),
                        !.defect_data = Some(defect_data)],
        Reply("choose_field", FormatDefectForView(defect_data, TRUE)))

\* process_edit_id
ProcessEditId(s, m, result) ==
    /\ Ready(s)
    /\ m.kind = "text"
    /\ Handler(state[s], m) = "process_edit_id"
    /\ LET defect_id == Upper(Strip(m.body))
           json_str == LoadDefectJson(defect_id, result)
       IN
       IF json_str = None
       THEN SetSession(s, state[s], data[s], Reply("not_found", defect_id))
       ELSE StartEditFlow(s, defect_id, Val(json_str))
    /\ UNCHANGED << ai, tasks, pc, loc, store, clock, issued, reported >>

\* The state process_edit_choice moves to for `choice`
EditChoiceTarget(choice) ==
    IF choice = "1" THEN "edit_manufacturer"
    ELSE IF choice = "2" THEN "edit_model"
    ELSE IF choice = "3" THEN "edit_description"
    ELSE IF choice = "4" THEN "edit_photos"
    ELSE "edit_videos"

\* process_edit_choice
ProcessEditChoice(s, m) ==
    /\ Ready(s)
    /\ m.kind = "text"
    /\ Handler(state[s], m) = "process_edit_choice"
    /\ LET choice == Strip(m.body) IN
       IF choice \notin {"1", "2", "3", "4", "5"}
       THEN SetSession(s, state[s], data[s], Reply("choose_1_to_5", ""))
       ELSE SetSession(s, EditChoiceTarget(choice),
                IF choice = "4"
                THEN [data[s] EXCEPT !.photo_file_ids = << >>]
                ELSE IF choice = "5"
                THEN [data[s] EXCEPT !.video_file_ids = << >>]
                ELSE data[s],
                Reply("ask_new", EditChoiceTarget(choice)))
    /\ UNCHANGED << ai, tasks, pc, loc, store, clock, issued, reported >>

\* A save that stamps the document as created now
SaveEditedRestamped(s, defect_data, put_ok, what) ==
    /\ clock < MaxClock
    /\ docs' = IF put_ok
               THEN PutDoc(docs, Val(data[s].defect_id),
                           [defect_data EXCEPT !.created_at = clock,
                                               !.updated_at = clock])
               ELSE docs
    /\ ClearSession(s, "none", Reply("updated", what))
    /\ clock' = clock + 1

\* A save that patches the edited field into the document stored now
SaveEditedPatch(s, defect_data, put_ok, what) ==
    /\ clock < MaxClock
    /\ LET id == Val(data[s].defect_id)
           stored == IF id \in DOMAIN docs THEN docs[id] ELSE defect_data
       IN
       docs' = IF ~put_ok THEN docs
               ELSE PutDoc(docs, id,
                       IF what = "manufacturer"
                       THEN [stored EXCEPT !.manufacturer = defect_data.manufacturer,
                                           !.updated_at = clock]
                       ELSE IF what = "model"
                       THEN [stored EXCEPT !.model = defect_data.model,
                                           !.updated_at = clock]
                       ELSE [defect_data EXCEPT !.updated_at = clock])
    /\ ClearSession(s, "none", Reply("updated", what))
    /\ clock' = clock + 1

\* The tail shared by the handlers that save an edited document:
\* s3_storage.save_defect_json (put_ok is what it returned; the code does
\* not look at it), state.clear(), the answer that the edit is saved.
SaveEdited(s, defect_data, put_ok, what) ==
    /\ clock < MaxClock
    /\ docs' = IF put_ok
               THEN PutDoc(docs, Val(data[s].defect_id),
                           [defect_data EXCEPT !.updated_at = clock])
               ELSE docs
    /\ ClearSession(s, "none", Reply("updated", what))
    /\ clock' = clock + 1

\* process_edit_manufacturer
ProcessEditManufacturer(s, m, put_ok) ==
    /\ Ready(s)
    /\ m.kind = "text"
    /\ Handler(state[s], m) = "process_edit_manufacturer"
    /\ LET manufacturer == Strip(m.body) IN
       IF manufacturer = ""
       THEN /\ SetSession(s, state[s], data[s], Reply("manufacturer_empty", ""))
            /\ UNCHANGED << tasks, docs, clock >>
       ELSE SaveEdited(s, [Val(data[s].defect_data) EXCEPT
                               !.manufacturer = manufacturer],
                       put_ok, "manufacturer")
    /\ UNCHANGED << ai, pc, loc, last_id, blobs, issued, reported >>

\* process_edit_model
ProcessEditModel(s, m, put_ok) ==
    /\ Ready(s)
    /\ m.kind = "text"
    /\ Handler(state[s], m) = "process_edit_model"
    /\ LET model == Strip(m.body) IN
       IF model = ""
       THEN /\ SetSession(s, state[s], data[s], Reply("model_empty", ""))
            /\ UNCHANGED << tasks, docs, clock >>
       ELSE SaveEdited(s, [Val(data[s].defect_data) EXCEPT !.model = model],
                       put_ok, "model")
    /\ UNCHANGED << ai, pc, loc, last_id, blobs, issued, reported >>

\* A process_edit_description_text that saves the new description and
\* leaves the summary for later
ProcessEditDescriptionTextStale(s, m, outcome, put_ok) ==
    /\ Ready(s)
    /\ Handler(state[s], m) = "process_edit_description_text"
    /\ LET description == Strip(m.body) IN
       IF Len(description) < MinDescriptionLen
       THEN /\ SetSession(s, state[s], data[s], Reply("description_short", ""))
            /\ UNCHANGED << tasks, docs, clock >>
       ELSE /\ outcome \in Outcomes(description)
            /\ SaveEdited(s, [Val(data[s].defect_data) EXCEPT
                                 !.raw_description = description],
                          put_ok, "description")
    /\ UNCHANGED << ai, pc, loc, last_id, blobs, issued, reported >>

\* process_edit_description_text: the summary is recomputed in the handler
ProcessEditDescriptionText(s, m, outcome, put_ok) ==
    /\ Ready(s)
    /\ Handler(state[s], m) = "process_edit_description_text"
    /\ LET description == Strip(m.body) IN
       IF Len(description) < MinDescriptionLen
       THEN /\ SetSession(s, state[s], data[s], Reply("description_short", ""))
            /\ UNCHANGED << tasks, docs, clock >>
       ELSE /\ outcome \in Outcomes(description)
            /\ SaveEdited(s, [Val(data[s].defect_data) EXCEPT
                                 !.raw_description = description,
                                 !.summary_description =
                                     SummarizeDefectText(description, outcome)],
                          put_ok, "description")
    /\ UNCHANGED << ai, pc, loc, last_id, blobs, issued, reported >>

\* process_edit_description_voice: as process_description_voice
ProcessEditDescriptionVoice(s, m, heard, outcome, shown) ==
    /\ Ready(s)
    /\ Handler(state[s], m) = "process_edit_description_voice"
    /\ LET description == TranscribeVoice(heard) IN
       IF description = "" \/ Len(Strip(description)) < MinDescriptionLen
       THEN SetSession(s, state[s], data[s], Reply("voice_failed", ""))
       ELSE /\ outcome \in Outcomes(description)
            /\ SetSession(s,
                   IF shown THEN "choosing_edit_description" ELSE state[s],
                   [data[s] EXCEPT
                       !.original_description = Some(description),
                       !.summary_description =
                           Some(SummarizeDefectText(description, outcome))],
                   IF shown THEN Reply("choose_description", description)
                   ELSE Reply("voice_error", ""))
    /\ UNCHANGED << ai, tasks, pc, loc, store, clock, issued, reported >>

\* handle_desc_original_universal -> handle_edit_desc_original
HandleEditDescOriginal(s, outcome, put_ok) ==
    /\ Ready(s)
    /\ state[s] = "choosing_edit_description"
    /\ IF Falsy(data[s].original_description)
       THEN /\ SetSession(s, state[s], data[s], Reply("original_missing", ""))
            /\ UNCHANGED << tasks, docs, clock >>
       ELSE LET original == Val(data[s].original_description) IN
            /\ outcome \in Outcomes(original)
            /\ SaveEdited(s, [Val(data[s].defect_data) EXCEPT
                                 !.raw_description = original,
                                 !.summary_description =
                                     SummarizeDefectText(original, outcome)],
                          put_ok, "description")
    /\ UNCHANGED << ai, pc, loc, last_id, blobs, issued, reported >>

\* handle_desc_summary_universal -> handle_edit_desc_summary
HandleEditDescSummary(s, put_ok) ==
    /\ Ready(s)
    /\ state[s] = "choosing_edit_description"
    /\ IF Falsy(data[s].summary_description)
       THEN /\ SetSession(s, state[s], data[s], Reply("summary_missing", ""))
            /\ UNCHANGED << tasks, docs, clock >>
       ELSE SaveEdited(s, [Val(data[s].defect_data) EXCEPT
                              !.raw_description =
                                  Val(data[s].summary_description),
                              !.summary_description =
                                  Val(data[s].summary_description)],
                       put_ok, "description")
    /\ UNCHANGED << ai, pc, loc, last_id, blobs, issued, reported >>

\* handle_desc_rerecord_universal -> handle_edit_desc_rerecord
HandleEditDescRerecord(s) ==
    /\ Ready(s)
    /\ state[s] = "choosing_edit_description"
    /\ SetSession(s, "edit_description",
            [data[s] EXCEPT !.original_description = None,
                            !.summary_description = None],
            Reply("ask_new", "rerecord"))
    /\ UNCHANGED << ai, tasks, pc, loc, store, clock, issued, reported >>

\* An edit_cancel that saved the document held by the session on the way out
HandleEditCancelSaving(s) ==
    /\ Ready(s)
    /\ ClearSession(s, "none", Reply("edit_cancelled", ""))
    /\ docs' = IF data[s].defect_id # None /\ data[s].defect_data # None
               THEN PutDoc(docs, Val(data[s].defect_id),
                           [Val(data[s].defect_data) EXCEPT !.updated_at = clock])
               ELSE docs
    /\ UNCHANGED << ai, pc, loc, last_id, blobs, clock, issued, reported >>

\* handle_edit_cancel: the inline button, no state check
HandleEditCancel(s) ==
    /\ Ready(s)
    /\ ClearSession(s, "none", Reply("edit_cancelled", ""))
    /\ UNCHANGED << ai, pc, loc, store, clock, issued, reported >>

\* handle_edit_back: the inline button, no state filter; without a state
\* it only acknowledges the button
HandleEditBack(s) ==
    /\ Ready(s)
    /\ LET d == data[s] IN
       IF state[s] = "none"
       THEN UNCHANGED << state, data, reply, tasks >>
       ELSE IF d.defect_id = None \/ d.defect_id = Some("") \/ d.defect_data = None
          \/ state[s] = "choose_field"
       THEN ClearSession(s, "none", Reply("edit_cancelled", ""))
       ELSE LET cleared ==
                    IF state[s] = "edit_photos"
                    THEN [d EXCEPT !.photo_file_ids = << >>]
                    ELSE IF state[s] = "edit_videos"
                    THEN [d EXCEPT !.video_file_ids = << >>]
                    ELSE d
            IN
            /\ IF state[s] = "choosing_edit_description"
               THEN SetSession(s, "edit_description",
                        [cleared EXCEPT !.original_description = None,
                                        !.summary_description = None],
                        Reply("ask_new", "edit_description"))
               ELSE IF state[s] \in {"edit_manufacturer", "edit_model",
                                     "edit_description", "edit_photos",
                                     "edit_videos"}
               THEN SetSession(s, "choose_field", cleared,
                        Reply("choose_field",
                              FormatDefectForView(Val(d.defect_data), TRUE)))
               ELSE SetSession(s, state[s], cleared, reply[s])
            /\ UNCHANGED tasks
    /\ UNCHANGED << ai, pc, loc, store, clock, issued, reported >>

\* process_edit_photos_collect: `gate` is what the download and the vision
\* call do
ProcessEditPhotosCollect(s, m, gate) ==
    /\ Ready(s)
    /\ Handler(state[s], m) = "process_edit_photos_collect"
    /\ IF gate = "download_error"
       THEN SetSession(s, state[s], data[s], Reply("photo_error", ""))
       ELSE IF AnalyzeImageQualitySimple(gate)
       THEN /\ Len(data[s].photo_file_ids) < MaxMedia
            /\ SetSession(s, state[s],
                   [data[s] EXCEPT !.photo_file_ids = Append(@, m.body)],
                   Reply("photo_accepted",
                         ToString(Len(data[s].photo_file_ids) + 1)))
       ELSE SetSession(s, state[s], data[s],
                       Reply("photo_rejected",
                             AnalyzeImageQualityAnalysis(gate)))
    /\ UNCHANGED << ai, tasks, pc, loc, store, clock, issued, reported >>

\* process_edit_videos_collect
ProcessEditVideosCollect(s, m) ==
    /\ Ready(s)
    /\ Handler(state[s], m) = "process_edit_videos_collect"
    /\ Len(data[s].video_file_ids) < MaxMedia
    /\ SetSession(s, state[s],
           [data[s] EXCEPT !.video_file_ids = Append(@, m.body)],
           Reply("video_accepted", ToString(Len(data[s].video_file_ids) + 1)))
    /\ UNCHANGED << ai, tasks, pc, loc, store, clock, issued, reported >>

\* S3Storage.delete_defect_files_by_prefix: a failed listing or delete is
\* printed and nothing is removed
DeleteDefectFilesByPrefix(bs, id, filename_prefix, ok) ==
    IF ok
    THEN {b \in bs : ~(b.id = id /\ StartsWith(b.filename, filename_prefix))}
    ELSE bs

\* _save_media_changes_common: delete_ok is whether the delete-by-prefix
\* worked, `failed` the uploads for which save_defect_file returned None,
\* put_ok what save_defect_json returned; the code looks at none of them.
SaveMediaChangesCommon(s, delete_ok, failed, put_ok) ==
    LET d == data[s]
        id == Val(d.defect_id)
        defect_data == Val(d.defect_data)
        photos == MediaEntries(d.photo_file_ids, "photo_", ".jpg", failed, 1)
        videos == MediaEntries(d.video_file_ids, "video_", ".mp4", failed, 1)
    IN
    IF state[s] = "edit_photos"
    THEN /\ failed \subseteq DOMAIN d.photo_file_ids
         /\ blobs' = PutBlobs(DeleteDefectFilesByPrefix(blobs, id, "photo_",
                                                        delete_ok),
                              id, photos, 1)
         /\ SaveEdited(s, [defect_data EXCEPT !.photos = photos], put_ok,
                       "media")
    ELSE IF state[s] = "edit_videos"
    THEN /\ failed \subseteq DOMAIN d.video_file_ids
         /\ blobs' = PutBlobs(DeleteDefectFilesByPrefix(blobs, id, "video_",
                                                        delete_ok),
                              id, videos, 1)
         /\ SaveEdited(s, [defect_data EXCEPT !.videos = videos], put_ok,
                       "media")
    ELSE /\ SetSession(s, state[s], d, Reply("upload_first", ""))
         /\ UNCHANGED << tasks, docs, blobs, clock >>

\* cmd_save_media_changes
CmdSaveMediaChanges(s, delete_ok, failed, put_ok) ==
    /\ Ready(s)
    /\ Handler(state[s], TextMsg("/save_changes")) = "cmd_save_media_changes"
    /\ SaveMediaChangesCommon(s, delete_ok, failed, put_ok)
    /\ UNCHANGED << ai, pc, loc, last_id, issued, reported >>

\* handle_edit_save_media: the inline button, no state filter;
\* data["defect_id"] raises KeyError when the session has no defect_id and
\* the handler ends there
HandleEditSaveMedia(s, delete_ok, failed, put_ok) ==
    /\ Ready(s)
    /\ data[s].defect_id # None
    /\ SaveMediaChangesCommon(s, delete_ok, failed, put_ok)
    /\ UNCHANGED << ai, pc, loc, last_id, issued, reported >>

\* The store as an earlier run of the bot left it: one record, D1,
\* registered from the warehouse with three photos.
StoredPhotos == << "X", "Y", "Z" >>

StoredRecord ==
    DefectData("D1", 1,
        [EmptyData EXCEPT !.origin = Some("warehouse"),
                          !.manufacturer = Some("Acme"),
                          !.model = Some("X1"),
                          !.raw_description = Some("left corner is cracked badly")],
        Take("left corner is cracked badly", FallbackLen),
        MediaEntries(StoredPhotos, "photo_", ".jpg", {}, 1), << >>, 1)

\* The bot started on a store that holds StoredRecord
InitStored ==
    /\ ai \in {"on", "off"}
    /\ state = [s \in Sessions |-> "none"]
    /\ data = [s \in Sessions |-> EmptyData]
    /\ tasks = [s \in Sessions |-> << >>]
    /\ pc = [s \in Sessions |-> "idle"]
    /\ loc = [s \in Sessions |-> NoLocals]
    /\ reply = [s \in Sessions |-> Reply("", "")]
    /\ last_id = Some("1")
    /\ docs = [id \in {"D1"} |-> StoredRecord]
    /\ blobs = PutBlobs({}, "D1", StoredRecord.photos, 1)
    /\ clock = 2
    /\ issued = << >>
    /\ reported = {}

\* ------------------------------------------------------------- inputs
DescA == "left corner is cracked badly"
DescB == "the screen flickers"
Warehouse == OriginTitle("warehouse")

\* ---------------------------------------------- Register, one session
\* One conversation registering defects: text and voice descriptions, the
\* detached summaries, Back, cancel and restart; the store never fails.
RegisterInput(s) ==
    \/ CmdRegisterDefect(s)
    \/ ProcessOrigin(s, TextMsg(Warehouse))
    \/ ProcessManufacturer(s, TextMsg("Acme"))
    \/ ProcessModel(s, TextMsg("X1"))
    \/ \E t \in {DescA, DescB, "too short"} :
           ProcessDescriptionText(s, TextMsg(t))
    \/ \E heard \in {None, Some(DescA)}, o \in SummaryOutcomes(DescA) \cup {None},
          shown \in BOOLEAN :
           ProcessDescriptionVoice(s, VoiceMsg("voice1"), heard, o, shown)
    \/ HandleDescOriginalRegistration(s)
    \/ HandleDescSummaryRegistration(s)
    \/ HandleDescRerecordRegistration(s)
    \/ HandlePhotosNext(s)
    \/ HandleRegBack(s)
    \/ CmdCancel(s)
    \/ HandleVideosFinish(s)

RegisterInternal(s) ==
    \/ \E i \in 1 .. MaxTasks, o \in SummaryOutcomes(DescA) \cup SummaryOutcomes(DescB) :
           GenerateSummaryAndStore(s, i, o)
    \/ \E o \in SummaryOutcomes(DescA) \cup SummaryOutcomes(DescB) :
           FinalizeSummarized(s, o)
    \/ GetLastDefectNumber(s, "ok")
    \/ SaveLastDefectNumber(s, "ok")
    \/ FinalizeSave(s, {}, {}, TRUE)

Next == RegisterInput(1) \/ RegisterInternal(1)

Spec == Init /\ [][Next]_vars

\* ------------------------------------------- all flows, one session
\* One conversation on a store that holds D1: Register up to Videos with
\* a dictated description, View and Edit with every field, the photo gate
\* with all its outcomes, the edit saves with failing store operations, and
\* /cancel sent in every state.
Cancel == TextMsg("/cancel")
NewPhotos == {"A", "B"}
PhotoOutcomes == GateOutcomes \cup {"download_error"}

\* The /cancel message, dispatched to the first handler that takes it
DeliverCancel(s) ==
    \/ ProcessOrigin(s, Cancel)
    \/ ProcessManufacturer(s, Cancel)
    \/ ProcessModel(s, Cancel)
    \/ ProcessDescriptionText(s, Cancel)
    \/ ProcessViewId(s, Cancel, "ok")
    \/ CmdCancel(s)

FlowsRegister(s) ==
    \/ CmdRegisterDefect(s)
    \/ ProcessOrigin(s, TextMsg(Warehouse))
    \/ ProcessManufacturer(s, TextMsg("Acme"))
    \/ ProcessModel(s, TextMsg("X1"))
    \/ \E o \in SummaryOutcomes(DescB) :
           ProcessDescriptionVoice(s, VoiceMsg("voice1"), Some(DescB), o, TRUE)
    \/ HandleDescSummaryRegistration(s)
    \/ \E gate \in PhotoOutcomes : ProcessPhoto(s, PhotoMsg("A"), gate)
    \/ HandlePhotosNext(s)
    \/ HandleRegBack(s)

FlowsView(s) ==
    \/ CmdViewDefect(s)
    \/ ProcessViewId(s, TextMsg("d1"), "ok")

FlowsEdit(s) ==
    \/ CmdEditDefect(s)
    \/ \E r \in {"ok", "client_error"} : ProcessEditId(s, TextMsg("d1"), r)
    \/ \E c \in {"1", "2", "3", "4", "5", "6"} :
           ProcessEditChoice(s, TextMsg(c))
    \/ \E t \in {"Bolt", "  "}, put_ok \in BOOLEAN :
           ProcessEditManufacturer(s, TextMsg(t), put_ok)
    \/ \E t \in {"X2", "  "}, put_ok \in BOOLEAN :
           ProcessEditModel(s, TextMsg(t), put_ok)
    \/ \E o \in SummaryOutcomes(DescB), put_ok \in BOOLEAN :
           ProcessEditDescriptionText(s, TextMsg(DescB), o, put_ok)
    \/ \E o \in SummaryOutcomes(DescB) :
           ProcessEditDescriptionVoice(s, VoiceMsg("voice1"), Some(DescB), o,
                                       TRUE)
    \/ \E o \in SummaryOutcomes(DescB), put_ok \in BOOLEAN :
           HandleEditDescOriginal(s, o, put_ok)
    \/ \E put_ok \in BOOLEAN : HandleEditDescSummary(s, put_ok)
    \/ HandleEditDescRerecord(s)
    \/ HandleEditBack(s)
    \/ HandleEditCancel(s)
    \/ \E p \in NewPhotos, gate \in PhotoOutcomes :
           ProcessEditPhotosCollect(s, PhotoMsg(p), gate)
    \/ ProcessEditVideosCollect(s, VideoMsg("V"))
    \/ \E delete_ok \in BOOLEAN, failed \in SUBSET (1 .. MaxMedia),
          put_ok \in BOOLEAN :
           \/ CmdSaveMediaChanges(s, delete_ok, failed, put_ok)
           \/ HandleEditSaveMedia(s, delete_ok, failed, put_ok)

NextFlows ==
    FlowsRegister(1) \/ FlowsView(1) \/ FlowsEdit(1) \/ DeliverCancel(1)

SpecFlows == InitStored /\ [][NextFlows]_vars

\* ------------------------------------- issuance, two sessions, failures
\* Two conversations registering and finalizing on an empty store whose
\* counter reads, counter writes and document puts can fail.
ReadResults == {"ok", "client_error", "raise"}
WriteResults == {"ok", "error"}

IssueInput(s) ==
    \/ clock < MaxClock /\ CmdRegisterDefect(s)
    \/ ProcessOrigin(s, TextMsg(Warehouse))
    \/ ProcessManufacturer(s, TextMsg("Acme"))
    \/ ProcessModel(s, TextMsg("X1"))
    \/ ProcessDescriptionText(s, TextMsg(DescA))
    \/ HandlePhotosNext(s)
    \/ CmdFinishDefect(s)

IssueInternal(s) ==
    \/ GenerateSummaryAndStore(s, 1, Some(AiSummary(DescA)))
    \/ FinalizeSummarized(s, Some(AiSummary(DescA)))
    \/ \E r \in ReadResults : GetLastDefectNumber(s, r)
    \/ \E r \in WriteResults : SaveLastDefectNumber(s, r)
    \/ \E put_ok \in BOOLEAN : FinalizeSave(s, {}, {}, put_ok)

NextIssue == \E s \in Sessions : IssueInput(s) \/ IssueInternal(s)

SpecIssue == Init /\ [][NextIssue]_vars

\* --------------------------------------- register then view, one session
\* One conversation registering a defect on an empty store whose document
\* put can fail, then viewing it by the identifier it was told.
RoundTripInput(s) ==
    \/ clock < MaxClock /\ CmdRegisterDefect(s)
    \/ ProcessOrigin(s, TextMsg(Warehouse))
    \/ ProcessManufacturer(s, TextMsg(" Acme"))
    \/ ProcessModel(s, TextMsg("X1"))
    \/ ProcessDescriptionText(s, TextMsg(DescA))
    \/ ProcessPhoto(s, PhotoMsg("A"), "accept")
    \/ HandlePhotosNext(s)
    \/ ProcessVideo(s, VideoMsg("V"))
    \/ HandleVideosFinish(s)
    \/ CmdViewDefect(s)
    \/ \E t \in {"D1", " d1", "D2"} : ProcessViewId(s, TextMsg(t), "ok")

RoundTripInternal(s) ==
    \/ \E o \in SummaryOutcomes(DescA) : GenerateSummaryAndStore(s, 1, o)
    \/ \E o \in SummaryOutcomes(DescA) : FinalizeSummarized(s, o)
    \/ GetLastDefectNumber(s, "ok")
    \/ SaveLastDefectNumber(s, "ok")
    \/ \E put_ok \in BOOLEAN : FinalizeSave(s, {}, {}, put_ok)

NextRoundTrip == RoundTripInput(1) \/ RoundTripInternal(1)

SpecRoundTrip == Init /\ [][NextRoundTrip]_vars

\* ------------------------------ entries and rejected inputs, one session
\* One conversation on a store that holds D1 entering the three flows,
\* pressing Back, and giving each step inputs it accepts and inputs it
\* rejects: origin titles and callback values, blank names, short
\* descriptions, selectors, known and unknown identifiers, and voice
\* messages that are not understood, too short, or whose candidates cannot
\* be shown.
ShortTexts == {"too short", "crack"}
KnownIds == {"d1", " D1 "}
BadSelectors == {"0", "6"}

InputsRegister(s) ==
    \/ CmdRegisterDefect(s)
    \/ \E t \in {Warehouse, "Other"} : ProcessOrigin(s, TextMsg(t))
    \/ \E v \in {"customer", "bogus"} : ProcessOriginCallback(s, v)
    \/ \E t \in {"Acme", "  "} : ProcessManufacturer(s, TextMsg(t))
    \/ \E t \in {"X1", "  "} : ProcessModel(s, TextMsg(t))
    \/ \E t \in ShortTexts \cup {DescA} : ProcessDescriptionText(s, TextMsg(t))
    \/ \E heard \in {None, Some("crack"), Some(DescA)},
          o \in SummaryOutcomes(DescA), shown \in BOOLEAN :
           ProcessDescriptionVoice(s, VoiceMsg("voice1"), heard, o, shown)
    \/ \E o \in SummaryOutcomes(DescA) : GenerateSummaryAndStore(s, 1, o)
    \/ HandleRegBack(s)

InputsView(s) ==
    \/ CmdViewDefect(s)
    \/ \E t \in KnownIds \cup {"d9"} : ProcessViewId(s, TextMsg(t), "ok")

InputsEdit(s) ==
    \/ CmdEditDefect(s)
    \/ \E t \in KnownIds \cup {"d9"} : ProcessEditId(s, TextMsg(t), "ok")
    \/ \E c \in BadSelectors \cup {"3"} : ProcessEditChoice(s, TextMsg(c))
    \/ \E t \in ShortTexts \cup {DescB}, o \in SummaryOutcomes(DescB) :
           ProcessEditDescriptionText(s, TextMsg(t), o, TRUE)
    \/ \E heard \in {None, Some("crack"), Some(DescB)},
          o \in SummaryOutcomes(DescB), shown \in BOOLEAN :
           ProcessEditDescriptionVoice(s, VoiceMsg("voice1"), heard, o, shown)
    \/ HandleEditBack(s)

NextInputs == InputsRegister(1) \/ InputsView(1) \/ InputsEdit(1)

SpecInputs == InitStored /\ [][NextInputs]_vars

\* ------------------------------- a Draft on its way to a record, one session
\* One conversation registering a defect on an empty store with every way
\* of moving between the steps: the typed and the pressed origin, Back,
\* the buttons and commands that leave the flow, both finish signals, and
\* an AI whose summary can be late, missing or blank.
PromoteInput(s) ==
    \/ CmdRegisterDefect(s)
    \/ ProcessOrigin(s, TextMsg(Warehouse))
    \/ ProcessOriginCallback(s, "customer")
    \/ ProcessManufacturer(s, TextMsg("Acme"))
    \/ ProcessModel(s, TextMsg("X1"))
    \/ ProcessDescriptionText(s, TextMsg(DescA))
    \/ HandlePhotosNext(s)
    \/ HandleRegBack(s)
    \/ CmdCancel(s)
    \/ CmdViewDefect(s)
    \/ HandleEditCancel(s)
    \/ HandleEditBack(s)
    \/ CmdFinishDefect(s)
    \/ HandleVideosFinish(s)

PromoteInternal(s) ==
    \/ \E o \in SummaryOutcomes(DescA) : GenerateSummaryAndStore(s, 1, o)
    \/ \E o \in SummaryOutcomes(DescA) : FinalizeSummarized(s, o)
    \/ GetLastDefectNumber(s, "ok")
    \/ SaveLastDefectNumber(s, "ok")
    \/ FinalizeSave(s, {}, {}, TRUE)

NextPromote == PromoteInput(1) \/ PromoteInternal(1)

SpecPromote == Init /\ [][NextPromote]_vars

\* The same conversation when the event loop is fair to what it has been
\* asked to run: a detached summary task whose AI call returns is resumed
\* and writes, and generate_defect_id, which never suspends, runs to its
\* end.  Nothing is assumed about what the user sends or when.
SpecPromoteLive ==
    /\ SpecPromote
    /\ WF_vars(\E o \in SummaryOutcomes(DescA) : GenerateSummaryAndStore(1, 1, o))
    /\ WF_vars(GetLastDefectNumber(1, "ok"))
    /\ WF_vars(SaveLastDefectNumber(1, "ok"))

\* ------------------------------- descriptions of every length, one session
\* One conversation typing descriptions around the three lengths the code
\* knows (10, 300 and 500 characters), their summaries written by the
\* detached task with every outcome of the AI call, and Back to type again.
RECURSIVE Xs(_)
Xs(n) ==
    IF n = 0 THEN ""
    ELSE IF n % 2 = 1 THEN "x" \o Xs(n - 1)
    ELSE LET half == Xs(n \div 2) IN half \o half

NextSummaries ==
    \/ CmdRegisterDefect(1)
    \/ ProcessOrigin(1, TextMsg(Warehouse))
    \/ ProcessManufacturer(1, TextMsg("Acme"))
    \/ ProcessModel(1, TextMsg("X1"))
    \/ \E n \in {MinDescriptionLen - 1, MinDescriptionLen, FallbackLen,
                 FallbackLen + 1, SummaryCap, SummaryCap + 1} :
           ProcessDescriptionText(1, TextMsg(" " \o Xs(n) \o " "))
    \/ \E i \in 1 .. MaxTasks,
          n \in {MinDescriptionLen, FallbackLen, FallbackLen + 1,
                 SummaryCap, SummaryCap + 1} :
           \E o \in SummaryOutcomes(Xs(n)) : GenerateSummaryAndStore(1, i, o)
    \/ HandleRegBack(1)

SpecSummaries == Init /\ [][NextSummaries]_vars

\* ------------------------------------------ an album, one session
\* One conversation registering a defect and sending an album of two
\* photos: A arrives first and B while A is still being checked; the two
\* gate calls return in either order with every verdict, before or after
\* Continue is pressed.
NextAlbum ==
    \/ state[1] = "none" /\ CmdRegisterDefect(1)
    \/ ProcessOrigin(1, TextMsg(Warehouse))
    \/ ProcessManufacturer(1, TextMsg("Acme"))
    \/ ProcessModel(1, TextMsg("X1"))
    \/ ProcessDescriptionText(1, TextMsg(DescA))
    \/ \E o \in SummaryOutcomes(DescA) : GenerateSummaryAndStore(1, 1, o)
    \/ reply[1].kind = "ask_photos" /\ ProcessPhotoStart(1, PhotoMsg("A"))
    \/ reply[1] = Reply("analyzing", "A") /\ ProcessPhotoStart(1, PhotoMsg("B"))
    \/ \E k \in 1 .. MaxMedia, gate \in PhotoOutcomes :
           ProcessPhotoGated(1, k, gate)
    \/ HandlePhotosNext(1)

SpecAlbum == Init /\ [][NextAlbum]_vars

\* ------------------------------------- two editors of one record
\* Two conversations editing the manufacturer and the model of D1, which
\* an earlier run stored at time 0; every put works.
InitEditors ==
    /\ ai \in {"on", "off"}
    /\ state = [s \in Sessions |-> "none"]
    /\ data = [s \in Sessions |-> EmptyData]
    /\ tasks = [s \in Sessions |-> << >>]
    /\ pc = [s \in Sessions |-> "idle"]
    /\ loc = [s \in Sessions |-> NoLocals]
    /\ reply = [s \in Sessions |-> Reply("", "")]
    /\ last_id = Some("1")
    /\ docs = [id \in {"D1"} |->
                  [StoredRecord EXCEPT !.created_at = 0, !.updated_at = 0]]
    /\ blobs = PutBlobs({}, "D1", StoredRecord.photos, 1)
    /\ clock = 1
    /\ issued = << >>
    /\ reported = {}

EditorsInput(s) ==
    \/ CmdEditDefect(s)
    \/ ProcessEditId(s, TextMsg("d1"), "ok")
    \/ \E c \in {"1", "2"} : ProcessEditChoice(s, TextMsg(c))
    \/ ProcessEditManufacturer(s, TextMsg("Bolt"), TRUE)
    \/ ProcessEditModel(s, TextMsg("X2"), TRUE)
    \/ HandleEditBack(s)

NextEditors == \E s \in Sessions : EditorsInput(s)

SpecEditors == InitEditors /\ [][NextEditors]_vars

\* ------------------------------ commands of another step, one session
\* One conversation on a store that holds D1 walking through Register,
\* View and Edit and sending /save_changes and /finish_defect, and pressing
\* the save button, in every state it comes to; the store never fails.
\* A text message dispatched to the first handler that takes it, when that
\* is a handler of the current state's field.
DeliverText(s, m) ==
    \/ ProcessOrigin(s, m)
    \/ ProcessManufacturer(s, m)
    \/ ProcessModel(s, m)
    \/ ProcessDescriptionText(s, m)
    \/ ProcessViewId(s, m, "ok")
    \/ ProcessEditId(s, m, "ok")
    \/ ProcessEditChoice(s, m)
    \/ ProcessEditManufacturer(s, m, TRUE)
    \/ ProcessEditModel(s, m, TRUE)
    \/ \E o \in SummaryOutcomes(m.body) :
           ProcessEditDescriptionText(s, m, o, TRUE)

NextCommands ==
    \/ CmdRegisterDefect(1)
    \/ ProcessOrigin(1, TextMsg(Warehouse))
    \/ ProcessManufacturer(1, TextMsg("Acme"))
    \/ ProcessModel(1, TextMsg("X1"))
    \/ \E i \in 1 .. MaxTasks,
          o \in SummaryOutcomes("/save_changes")
                \cup SummaryOutcomes("/finish_defect") :
           GenerateSummaryAndStore(1, i, o)
    \/ HandlePhotosNext(1)
    \/ CmdViewDefect(1)
    \/ CmdEditDefect(1)
    \/ ProcessEditId(1, TextMsg("d1"), "ok")
    \/ \E c \in {"1", "2", "3", "4", "5"} : ProcessEditChoice(1, TextMsg(c))
    \/ ProcessEditPhotosCollect(1, PhotoMsg("A"), "accept")
    \/ \E m \in {TextMsg("/save_changes"), TextMsg("/finish_defect")} :
           DeliverText(1, m)
    \/ CmdSaveMediaChanges(1, TRUE, {}, TRUE)
    \/ HandleEditSaveMedia(1, TRUE, {}, TRUE)

SpecCommands == InitStored /\ [][NextCommands]_vars

\* One conversation on a store that holds D1 in which /view_defect and
\* /edit_defect are sent, among ordinary texts, in every state of Register,
\* View and Edit it comes to.
NextEntry ==
    \/ CmdRegisterDefect(1)
    \/ ProcessOrigin(1, TextMsg(Warehouse))
    \/ \E i \in 1 .. MaxTasks,
          o \in SummaryOutcomes(DescA) \cup SummaryOutcomes("/view_defect")
                \cup SummaryOutcomes("/edit_defect") :
           GenerateSummaryAndStore(1, i, o)
    \/ HandlePhotosNext(1)
    \/ CmdViewDefect(1)
    \/ CmdEditDefect(1)
    \/ ProcessEditId(1, TextMsg("d1"), "ok")
    \/ \E c \in {"1", "2", "3"} : ProcessEditChoice(1, TextMsg(c))
    \/ \E m \in {TextMsg("/view_defect"), TextMsg("/edit_defect"),
                  TextMsg("Acme"), TextMsg(DescA)} :
           DeliverText(1, m)

SpecEntry == InitStored /\ [][NextEntry]_vars

\* One conversation collecting media: the description is typed or dictated,
\* photos and videos are sent, and the user steps back and forth between
\* Description, Photos and Videos.
NextMedia ==
    \/ state[1] = "none" /\ CmdRegisterDefect(1)
    \/ ProcessOrigin(1, TextMsg(Warehouse))
    \/ ProcessManufacturer(1, TextMsg("Acme"))
    \/ ProcessModel(1, TextMsg("X1"))
    \/ ProcessDescriptionText(1, TextMsg(DescA))
    \/ \E o \in SummaryOutcomes(DescA) :
           ProcessDescriptionVoice(1, VoiceMsg("voice1"), Some(DescA), o, TRUE)
    \/ HandleDescOriginalRegistration(1)
    \/ HandleDescSummaryRegistration(1)
    \/ \E i \in 1 .. MaxTasks, o \in SummaryOutcomes(DescA) :
           GenerateSummaryAndStore(1, i, o)
    \/ \E p \in {"A", "B"} : ProcessPhoto(1, PhotoMsg(p), "accept")
    \/ HandlePhotosNext(1)
    \/ ProcessVideo(1, VideoMsg("V"))
    \/ state[1] \in {"photos", "videos"} /\ HandleRegBack(1)

SpecMedia == Init /\ [][NextMedia]_vars

\* One registration on an empty store by a user who sends only valid
\* inputs and the continue and finish signals, started once.  Every call
\* to the AI and to the store returns, with any of its results.  The user
\* goes on answering, and a call that was made returns: each step forward
\* that stays possible is taken in the end.
NextOnce ==
    \/ reply[1] = Reply("", "") /\ CmdRegisterDefect(1)
    \/ ProcessOrigin(1, TextMsg(Warehouse))
    \/ ProcessManufacturer(1, TextMsg("Acme"))
    \/ ProcessModel(1, TextMsg("X1"))
    \/ ProcessDescriptionText(1, TextMsg(DescA))
    \/ \E heard \in {None, Some(DescA)}, o \in SummaryOutcomes(DescA) \cup {None},
          shown \in BOOLEAN :
           ProcessDescriptionVoice(1, VoiceMsg("voice1"), heard, o, shown)
    \/ HandleDescOriginalRegistration(1)
    \/ HandleDescSummaryRegistration(1)
    \/ \E i \in 1 .. MaxTasks, o \in SummaryOutcomes(DescA) :
           GenerateSummaryAndStore(1, i, o)
    \/ \E gate \in PhotoOutcomes : ProcessPhoto(1, PhotoMsg("A"), gate)
    \/ HandlePhotosNext(1)
    \/ ProcessVideo(1, VideoMsg("V"))
    \/ HandleVideosFinish(1)
    \/ \E o \in SummaryOutcomes(DescA) : FinalizeSummarized(1, o)
    \/ \E r \in ReadResults \ {"raise"} : GetLastDefectNumber(1, r)
    \/ \E r \in WriteResults : SaveLastDefectNumber(1, r)
    \/ \E pf, vf \in SUBSET (1 .. MaxMedia), put_ok \in BOOLEAN :
           FinalizeSave(1, pf, vf, put_ok)

SpecOnceLive ==
    /\ Init
    /\ [][NextOnce]_vars
    /\ WF_vars(ProcessOrigin(1, TextMsg(Warehouse)))
    /\ WF_vars(ProcessManufacturer(1, TextMsg("Acme")))
    /\ WF_vars(ProcessModel(1, TextMsg("X1")))
    /\ WF_vars(ProcessDescriptionText(1, TextMsg(DescA)))
    /\ WF_vars(HandleDescOriginalRegistration(1))
    /\ WF_vars(\E i \in 1 .. MaxTasks, o \in SummaryOutcomes(DescA) :
                   GenerateSummaryAndStore(1, i, o))
    /\ WF_vars(HandlePhotosNext(1))
    /\ WF_vars(HandleVideosFinish(1))
    /\ WF_vars(\E o \in SummaryOutcomes(DescA) : FinalizeSummarized(1, o))
    /\ WF_vars(\E r \in ReadResults \ {"raise"} : GetLastDefectNumber(1, r))
    /\ WF_vars(\E r \in WriteResults : SaveLastDefectNumber(1, r))
    /\ WF_vars(\E pf, vf \in SUBSET (1 .. MaxMedia), put_ok \in BOOLEAN :
                   FinalizeSave(1, pf, vf, put_ok))

\* ---------------------------------------------------------------- claims

\* C1: the summary_description of every record Finalize has persisted is a
\* summary of the raw_description of the same record: it is not empty and
\* it is one of the texts summarize_defect_text returns for that
\* raw_description, whatever the order of description entries, Back steps
\* and task completions was.
C1_PersistedSummaryIsOfRawDescription ==
    \A id \in DOMAIN docs :
        /\ docs[id].summary_description # ""
        /\ docs[id].summary_description \in SummariesOf(docs[id].raw_description)

\* C2: the write of a detached summarization task that lands after its
\* session was cleared or handed to another flow changes neither the state
\* nor the FSM data (Draft, description candidates) of that session.
C2_LateWriteIsNoOp ==
    [][\A s \in Sessions, i \in 1 .. MaxTasks :
          (/\ i \in DOMAIN tasks[s]
           /\ tasks[s][i].orphan
           /\ \E o \in Outcomes(tasks[s][i].text) :
                  GenerateSummaryAndStore(s, i, o))
          => (state'[s] = state[s] /\ data'[s] = data[s])]_vars

\* C3: in every state of the Register, View and Edit flows the /cancel
\* command returns the session to idle with the Draft discarded and writes
\* nothing to the store.
C3_CancelReturnsToIdle ==
    [][\A s \in Sessions :
          DeliverCancel(s)
          => (/\ state'[s] = "none"
              /\ data'[s] = EmptyData
              /\ store' = store)]_vars

\* An Edit save of session s in which a store operation fails: the document
\* put of a field edit, or the delete-by-prefix, an upload or the document
\* put of a media save.
FailedEditSave(s) ==
    \/ ProcessEditManufacturer(s, TextMsg("Bolt"), FALSE)
    \/ ProcessEditModel(s, TextMsg("X2"), FALSE)
    \/ \E delete_ok \in BOOLEAN, failed \in SUBSET (1 .. MaxMedia),
          put_ok \in BOOLEAN :
           /\ state[s] \in {"edit_photos", "edit_videos"}
           /\ ~delete_ok \/ failed # {} \/ ~put_ok
           /\ CmdSaveMediaChanges(s, delete_ok, failed, put_ok)

\* C4: when a store operation fails during an Edit save the session stays
\* in the state it was in with its data intact, and no success is
\* reported.
C4_FailedSaveKeepsSession ==
    [][\A s \in Sessions :
          FailedEditSave(s)
          => (/\ state'[s] = state[s]
              /\ data'[s] = data[s]
              /\ reply'[s].kind # "updated")]_vars

\* C5: the calls of generate_defect_id, which run one after another,
\* return D1, D2, D3, ...: the i-th call returns number i, so the
\* identifiers are pairwise distinct and each is one greater than the
\* previous.
C5_SequentialIdentifiers ==
    \A i \in DOMAIN issued : issued[i].number = i

\* Two finalizations hold the same identifier.
HeldDuplicate ==
    \E s, t \in Sessions :
        /\ s # t
        /\ pc[s] = "fin_save" /\ pc[t] = "fin_save"
        /\ loc[s].defect_id = loc[t].defect_id

\* Session s has read the counter and not yet written it.
InIssuance(s) == pc[s] = "gen_write"

\* C6 as stated: two finalizations holding one identifier got there by
\* interleaving the read, +1 and write steps of the issuance.
C6_DuplicateByInterleaving ==
    HeldDuplicate => \E s \in Sessions : pc[s] = "fin_save" /\ loc[s].raced

\* C6 amended: the read, +1 and write of one issuance are never interleaved
\* with those of another (no two sessions are between the read and the
\* write at once); two finalizations hold the same identifier only after a
\* counter read or write has failed.
C6_IssuanceNotInterleaved ==
    /\ \A s, t \in Sessions : s # t => ~(InIssuance(s) /\ InIssuance(t))
    /\ \A s \in Sessions : ~loc[s].raced
    /\ HeldDuplicate => \E i \in DOMAIN issued : issued[i].failed

\* C6 witness: two finalizations hold the same identifier.
C6_Witness == HeldDuplicate

\* C7: an issuance whose counter read or write failed returns no
\* identifier, so no finalization goes on to save a record under one.
C7_FailedIssuanceReturnsNothing ==
    /\ \A i \in DOMAIN issued : ~issued[i].failed
    /\ \A s \in Sessions : pc[s] = "fin_save" => ~loc[s].failed

\* C8: viewing by an identifier that was reported at Finalize finds the
\* record, and the text shown for it has the manufacturer, model and raw
\* description of the Draft and no summary line.
C8_RoundTrip ==
    \A s \in Sessions, r \in reported :
        /\ reply[s] # Reply("not_found", r.id)
        /\ (/\ reply[s].kind = "view"
            /\ StartsWith(reply[s].arg, "Defect ID: " \o r.id \o "\n"))
           => (/\ Contains(reply[s].arg,
                           "1. Manufacturer: " \o r.manufacturer \o "\n")
               /\ Contains(reply[s].arg, "2. Model: " \o r.model \o "\n")
               /\ Contains(reply[s].arg,
                           "3. What happened: " \o r.raw_description \o "\n")
               /\ ~Contains(reply[s].arg, "Summary (AI)"))

\* The vision call of a configured gate did not accept the photo.
NotAccepted(gate) == Configured /\ gate # "accept"

\* C9: in Photos and in EditPhotos a photo the gate does not accept
\* (rejected, no verdict, the check raising, the download raising) is not
\* appended: the photo list and the state are as before and no count is
\* reported.
C9_RejectedPhotoNotAppended ==
    [][\A s \in Sessions, p \in NewPhotos, gate \in PhotoOutcomes :
          (/\ NotAccepted(gate)
           /\ \/ ProcessPhoto(s, PhotoMsg(p), gate)
              \/ ProcessEditPhotosCollect(s, PhotoMsg(p), gate))
          => (/\ data'[s].photo_file_ids = data[s].photo_file_ids
              /\ state'[s] = state[s]
              /\ reply'[s].kind \in {"photo_rejected", "photo_error"})]_vars

\* C9 witness: in EditPhotos, with one photo already collected, a photo
\* was just rejected.
C9_Witness ==
    \E s \in Sessions :
        /\ state[s] = "edit_photos"
        /\ Configured
        /\ reply[s].kind = "photo_rejected"
        /\ Len(data[s].photo_file_ids) = 1

\* Session s saves the photo edit A, B over the stored photos X, Y, Z and
\* every store operation of the save that writes works.
SavesAB(s) ==
    /\ state[s] = "edit_photos"
    /\ data[s].photo_file_ids = << "A", "B" >>
    /\ data[s].defect_id = Some("D1")
    /\ docs["D1"].photos = StoredRecord.photos
    /\ \E delete_ok \in BOOLEAN :
           \/ CmdSaveMediaChanges(s, delete_ok, {}, TRUE)
           \/ HandleEditSaveMedia(s, delete_ok, {}, TRUE)

\* The filenames of the entries of a media list
Filenames(entries) == {entries[i].filename : i \in DOMAIN entries}

\* C10 as stated: after the save the list has two entries, for A and B in
\* upload order, and none of the filenames X, Y and Z had is in it.
C10_NoOldFilenameRemains ==
    [][\A s \in Sessions :
          SavesAB(s)
          => (/\ Len(docs'["D1"].photos) = 2
              /\ docs'["D1"].photos[1].file_id = "A"
              /\ docs'["D1"].photos[2].file_id = "B"
              /\ Filenames(docs'["D1"].photos)
                     \cap Filenames(StoredRecord.photos) = {})]_vars

\* C10 amended: after a save whose uploads and document put worked the
\* list has exactly two entries, A then B, named by their ordinals
\* photo_1.jpg and photo_2.jpg (the names X and Y had); no entry refers to
\* X, Y or Z and the name photo_3.jpg is gone.
C10_ReplacedByOrdinalNames ==
    [][\A s \in Sessions :
          SavesAB(s)
          => (/\ docs'["D1"].photos =
                     << [filename |-> "photo_1.jpg", file_id |-> "A"],
                        [filename |-> "photo_2.jpg", file_id |-> "B"] >>
              /\ Filenames(docs'["D1"].photos)
                     \subseteq Filenames(StoredRecord.photos))]_vars

\* C10 witness: the record lists A and B after a saved photo edit.
C10_Witness ==
    /\ \E s \in Sessions : reply[s] = Reply("updated", "media")
    /\ Len(docs["D1"].photos) = 2
    /\ docs["D1"].photos[1].file_id = "A"
    /\ docs["D1"].photos[2].file_id = "B"

\* The states of the Edit flow after the identifier was accepted, and those
\* of them in which one field is being edited
EditSubStates ==
    {"edit_manufacturer", "edit_model", "edit_description",
     "choosing_edit_description", "edit_photos", "edit_videos"}

EditStates == EditSubStates \cup {"choose_field"}

\* Session s, in the Edit flow, gives the edit up: /cancel or the Cancel
\* button in any of its states, or Back at ChooseField.
CancelsEdit(s) ==
    /\ state[s] \in EditStates \cup {"edit_waiting_for_id"}
    /\ \/ DeliverCancel(s)
       \/ HandleEditCancel(s)
       \/ state[s] = "choose_field" /\ HandleEditBack(s)

\* C11: giving an edit up leaves the store as it is: the documents with
\* their updated_at, the media objects and the counter are unchanged, and
\* the document of the edited identifier still is the one loaded when the
\* edit started.
C11_CancelledEditWritesNothing ==
    [][\A s \in Sessions :
          CancelsEdit(s)
          => (/\ store' = store
              /\ state'[s] = "none"
              /\ data[s].defect_data # None
                 => docs'[Val(data[s].defect_id)] = Val(data[s].defect_data))]_vars

\* C11 witness: an edit was given up and D1 and its media are stored as
\* they were.
C11_Witness ==
    \E s \in Sessions :
        /\ reply[s] = Reply("edit_cancelled", "")
        /\ state[s] = "none"
        /\ docs["D1"] = StoredRecord
        /\ blobs = PutBlobs({}, "D1", StoredRecord.photos, 1)

\* C12: the Back button of the Edit flow returns from every edit sub-state
\* to ChooseField with the collected media and the description candidates
\* cleared, and from ChooseField it clears the session; it never writes to
\* the store.
C12_BackReturnsToChooseField ==
    [][\A s \in Sessions :
          (state[s] \in EditStates /\ HandleEditBack(s))
          => (/\ store' = store
              /\ state[s] \in EditSubStates
                 => (/\ state'[s] = "choose_field"
                     /\ data'[s].photo_file_ids = << >>
                     /\ data'[s].video_file_ids = << >>
                     /\ data'[s].original_description = None)
              /\ state[s] = "choose_field"
                 => (state'[s] = "none" /\ data'[s] = EmptyData))]_vars

\* Session s presses Back in the first state of a flow: the Back of
\* Register (reg_back) at Origin, the Back of Edit (edit_back) at either
\* WaitingForId.
BackInFirstState(s) ==
    \/ state[s] = "origin" /\ HandleRegBack(s)
    \/ state[s] \in {"view_waiting_for_id", "edit_waiting_for_id"}
       /\ HandleEditBack(s)

\* C13: Back in the first state of Register, View or Edit returns the
\* session to idle with an empty Draft, and Back pressed in idle changes
\* neither the state nor the Draft; neither writes to the store.
C13_BackFromFirstState ==
    [][\A s \in Sessions :
          /\ BackInFirstState(s)
             => (state'[s] = "none" /\ data'[s] = EmptyData /\ store' = store)
          /\ (state[s] = "none" /\ (HandleRegBack(s) \/ HandleEditBack(s)))
             => (state'[s] = "none" /\ data'[s] = data[s] /\ store' = store)]_vars

\* C13 witness: Back was pressed at Edit.WaitingForId and the session is
\* idle with an empty Draft.
C13_Witness ==
    \E s \in Sessions :
        /\ reply[s] = Reply("edit_cancelled", "")
        /\ state[s] = "none"
        /\ data[s] = EmptyData

\* C14: a text description shorter than 10 characters, in Description and
\* in EditDescription, is answered with the re-prompt: the state, the
\* Draft with its raw_description and the store are unchanged and no
\* summarization task is started.
C14_ShortDescriptionRejected ==
    [][\A s \in Sessions, t \in ShortTexts :
          (\/ ProcessDescriptionText(s, TextMsg(t))
           \/ \E o \in SummaryOutcomes(DescB) :
                  ProcessEditDescriptionText(s, TextMsg(t), o, TRUE))
          => (/\ state'[s] = state[s]
              /\ data'[s] = data[s]
              /\ tasks' = tasks
              /\ store' = store
              /\ reply'[s] = Reply("description_short", ""))]_vars

\* C14 witness: a short description was just rejected in EditDescription.
C14_Witness ==
    \E s \in Sessions :
        /\ state[s] = "edit_description"
        /\ reply[s] = Reply("description_short", "")
        /\ docs["D1"] = StoredRecord

\* Session s, in Origin, Manufacturer, Model or ChooseField, sends an input
\* the step rejects: a title or a callback value that is no origin, a blank
\* name, a selector outside 1..5.
RejectedInput(s) ==
    \/ ProcessOrigin(s, TextMsg("Other"))
    \/ state[s] = "origin" /\ ProcessOriginCallback(s, "bogus")
    \/ ProcessManufacturer(s, TextMsg("  "))
    \/ ProcessModel(s, TextMsg("  "))
    \/ \E c \in BadSelectors : ProcessEditChoice(s, TextMsg(c))

\* C15: an input that fails validation in Origin, Manufacturer, Model or
\* ChooseField leaves the state and every field of the session's data
\* unchanged.
C15_RejectedInputKeepsSession ==
    [][\A s \in Sessions :
          RejectedInput(s)
          => (/\ state'[s] = state[s]
              /\ data'[s] = data[s]
              /\ store' = store)]_vars

\* C15 witness: a blank model was just rejected with origin and
\* manufacturer in the Draft.
C15_Witness ==
    \E s \in Sessions :
        /\ state[s] = "model"
        /\ reply[s] = Reply("model_empty", "")
        /\ data[s].manufacturer = Some("Acme")
        /\ data[s].origin # None

\* C19: an identifier no record is stored under, entered in
\* View.WaitingForId or Edit.WaitingForId, is answered with not-found: the
\* session stays in its WaitingForId state with its data, nothing is
\* written, and the identifier of a stored record entered next is accepted
\* (the record is shown, the edit starts).
C19_UnknownIdKeepsWaiting ==
    [][\A s \in Sessions :
          /\ (ProcessViewId(s, TextMsg("d9"), "ok")
              \/ ProcessEditId(s, TextMsg("d9"), "ok"))
             => (/\ state[s] \in {"view_waiting_for_id", "edit_waiting_for_id"}
                 /\ state'[s] = state[s]
                 /\ data'[s] = data[s]
                 /\ store' = store
                 /\ reply'[s] = Reply("not_found", "D9"))
          /\ \A t \in KnownIds :
                reply[s] = Reply("not_found", "D9")
                => (/\ ProcessViewId(s, TextMsg(t), "ok")
                       => reply'[s].kind = "view"
                    /\ ProcessEditId(s, TextMsg(t), "ok")
                       => state'[s] = "choose_field")]_vars

\* C19 witness: an unknown identifier was just reported in
\* Edit.WaitingForId while D1 is stored.
C19_Witness ==
    \E s \in Sessions :
        /\ state[s] = "edit_waiting_for_id"
        /\ reply[s] = Reply("not_found", "D9")
        /\ "D1" \in DOMAIN docs

\* C20: in View.WaitingForId the identifier of a stored record is answered
\* with the text of that record without its summary, the session becomes
\* idle and nothing is written to the store.
C20_ViewShowsRecord ==
    [][\A s \in Sessions, t \in KnownIds :
          ProcessViewId(s, TextMsg(t), "ok")
          => (/\ state'[s] = "none"
              /\ data'[s] = EmptyData
              /\ store' = store
              /\ reply'[s].kind = "view"
              /\ StartsWith(reply'[s].arg, "Defect ID: D1\n")
              /\ Contains(reply'[s].arg,
                     "3. What happened: " \o docs["D1"].raw_description \o "\n")
              /\ ~Contains(reply'[s].arg, "Summary (AI)")
              /\ StartsWith(docs["D1"].summary_description, "Summary of")
                 => ~Contains(reply'[s].arg, docs["D1"].summary_description))]_vars

\* C20 witness: D1, whose stored summary is a text of the AI, was just
\* viewed.
C20_Witness ==
    \E s \in Sessions :
        /\ reply[s].kind = "view"
        /\ state[s] = "none"
        /\ StartsWith(docs["D1"].summary_description, "Summary of")

\* Finalize of session s is running and found no summary in the Draft it
\* read.
FinalizedWithoutSummary(s) ==
    pc[s] \in {"gen_read", "gen_write", "fin_save"}
    /\ Falsy(loc[s].data.summary_description)

\* C16: a finalization that found no summary in the Draft holds, once its
\* synchronous summarize_defect_text has returned, a summary that is not
\* empty, and no record is stored with an empty summary_description.
C16_SynchronousSummaryNonEmpty ==
    /\ \A s \in Sessions :
           FinalizedWithoutSummary(s) => ~Falsy(loc[s].summary)
    /\ \A id \in DOMAIN docs : docs[id].summary_description # ""

\* origin, manufacturer, model and raw_description are set in the data d
Promotable(d) ==
    /\ ~Falsy(d.origin)
    /\ ~Falsy(d.manufacturer)
    /\ ~Falsy(d.model)
    /\ ~Falsy(d.raw_description)

C18_LastWriterWins ==
    [][\A s \in Sessions :
          (data[s].defect_data # None
           /\ (ProcessEditManufacturer(s, TextMsg("Bolt"), TRUE)
               \/ ProcessEditModel(s, TextMsg("X2"), TRUE)))
          => LET loaded == Val(data[s].defect_data) IN
             /\ DOMAIN docs' = DOMAIN docs
             /\ docs'["D1"] \in
                    {[loaded EXCEPT !.manufacturer = "Bolt", !.updated_at = clock],
                     [loaded EXCEPT !.model = "X2", !.updated_at = clock]}
             /\ (state[s] = "edit_model"
                 /\ docs["D1"].manufacturer # loaded.manufacturer)
                => docs'["D1"].manufacturer = loaded.manufacturer
             /\ (state[s] = "edit_manufacturer"
                 /\ docs["D1"].model # loaded.model)
                => docs'["D1"].model = loaded.model]_vars

\* C18 witness: both editors were told their change is saved, the first
\* the manufacturer and the second the model, and the stored record has
\* the new model with the old manufacturer.
C18_Witness ==
    \E s, t \in Sessions :
        /\ reply[s] = Reply("updated", "manufacturer")
        /\ reply[t] = Reply("updated", "model")
        /\ docs["D1"].manufacturer = StoredRecord.manufacturer
        /\ docs["D1"].model = "X2"

\* C21: a save-edit signal (the /save_changes message or the save button)
\* that arrives in a state other than edit_photos and edit_videos deletes,
\* uploads and writes nothing, leaves the session's state and data as they
\* were, and is answered with the upload-first message.
C21_SaveOutsideMediaIsNoOp ==
    [][\A s \in Sessions :
          ( /\ state[s] \notin {"edit_photos", "edit_videos"}
            /\ \/ DeliverText(s, TextMsg("/save_changes"))
               \/ HandleEditSaveMedia(s, TRUE, {}, TRUE) )
          => /\ store' = store
             /\ state' = state
             /\ data' = data
             /\ reply'[s] = Reply("upload_first", "")]_vars

\* C29: a finish signal that arrives when the session is not in videos
\* issues no identifier and writes nothing to the store.
C29_MistimedFinishWritesNothing ==
    [][\A s \in Sessions :
          ( /\ state[s] # "videos"
            /\ DeliverText(s, TextMsg("/finish_defect")) )
          => /\ store' = store
             /\ issued' = issued]_vars

\* C22 as stated: the unconfigured gate accepts; a vision call that raises
\* and an answer without a verdict are both rejected with the error text
\* as the explanation; otherwise the verdict is the answer's is_acceptable.
C22_VerdictlessIsAnError ==
    [][\A s \in Sessions, gate \in GateOutcomes :
          ProcessPhoto(s, PhotoMsg("A"), gate)
          => /\ ~Configured => reply'[s].kind = "photo_accepted"
             /\ Configured /\ gate \in {"error", "no_verdict"}
                    => reply'[s] = Reply("photo_rejected", "error")
             /\ Configured /\ gate = "accept"
                    => reply'[s].kind = "photo_accepted"
             /\ Configured /\ gate = "reject"
                    => reply'[s].kind = "photo_rejected"]_vars

\* C22 amended: the unconfigured gate accepts; a vision call that raises
\* (or whose answer cannot be parsed) is rejected with the error text as
\* the explanation; an answer without a verdict is rejected with the
\* answer's analysis, or the text that none was given, as the explanation;
\* otherwise the verdict is the answer's is_acceptable and the explanation
\* its analysis.
C22_GateVerdict ==
    [][\A s \in Sessions, gate \in GateOutcomes :
          ProcessPhoto(s, PhotoMsg("A"), gate)
          => /\ ~Configured => reply'[s].kind = "photo_accepted"
             /\ Configured /\ gate = "error"
                    => reply'[s] = Reply("photo_rejected", "error")
             /\ Configured /\ gate = "no_verdict"
                    => reply'[s] = Reply("photo_rejected", "analysis")
             /\ Configured /\ gate = "accept"
                    => reply'[s].kind = "photo_accepted"
             /\ Configured /\ gate = "reject"
                    => reply'[s] = Reply("photo_rejected", "analysis")]_vars

\* C22 witness: the configured gate has rejected a photo in Register and
\* given the answer's analysis as the explanation; no photo was appended.
C22_Witness ==
    /\ Configured
    /\ state[1] = "photos"
    /\ reply[1] = Reply("photo_rejected", "analysis")
    /\ data[1].photo_file_ids = << >>

\* C23: in edit_manufacturer and edit_model a text that is not blank is
\* set as that field of the session's copy of the record, the copy is
\* stamped with the time of the save and stored whole under the edited
\* identifier, and the session is idle afterwards; a blank text stores
\* nothing and leaves the state and the data as they were.
C23_EditedNameIsSaved ==
    [][\A s \in Sessions :
          LET id == Val(data[s].defect_id)
              copy == Val(data[s].defect_data)
          IN
          /\ ProcessEditManufacturer(s, TextMsg("Bolt"), TRUE)
                => /\ docs' = [docs EXCEPT ![id] =
                          [copy EXCEPT !.manufacturer = "Bolt",
                                       !.updated_at = clock]]
                   /\ state'[s] = "none" /\ data'[s] = EmptyData
                   /\ blobs' = blobs /\ last_id' = last_id
          /\ ProcessEditModel(s, TextMsg("X2"), TRUE)
                => /\ docs' = [docs EXCEPT ![id] =
                          [copy EXCEPT !.model = "X2", !.updated_at = clock]]
                   /\ state'[s] = "none" /\ data'[s] = EmptyData
                   /\ blobs' = blobs /\ last_id' = last_id
          /\ ( \/ ProcessEditManufacturer(s, TextMsg("  "), TRUE)
               \/ ProcessEditModel(s, TextMsg("  "), TRUE) )
                => /\ store' = store
                   /\ state' = state /\ data' = data]_vars

\* C23 witness: the manufacturer of D1 was edited: the stored record has
\* the new name and the time of the save, the rest of it is as registered,
\* and the session is idle.
C23_Witness ==
    /\ state[1] = "none"
    /\ reply[1] = Reply("updated", "manufacturer")
    /\ docs["D1"] = [StoredRecord EXCEPT !.manufacturer = "Bolt",
                                         !.updated_at = 2]

\* C24: in edit_description a text of valid length is summarized inside
\* the handler before anything is stored: the one write stores the new
\* description together with a summary computed from that same text and
\* the session is idle afterwards; the store never holds the new
\* description next to the summary of the old one.
C24_DescriptionSavedWithItsSummary ==
    [][/\ \A s \in Sessions, o \in SummaryOutcomes(DescB) :
              ProcessEditDescriptionText(s, TextMsg(DescB), o, TRUE)
              => /\ docs'["D1"].raw_description = DescB
                 /\ docs'["D1"].summary_description
                        = SummarizeDefectText(DescB, o)
                 /\ state'[s] = "none" /\ data'[s] = EmptyData
       /\ docs'["D1"].raw_description = DescB
              => docs'["D1"].summary_description \in SummariesOf(DescB)]_vars

\* C24 witness: the description of D1 was edited by text: the stored
\* record has the new description and a summary of it, and the session is
\* idle.
C24_Witness ==
    /\ state[1] = "none"
    /\ reply[1] = Reply("updated", "description")
    /\ docs["D1"].raw_description = DescB
    /\ docs["D1"].summary_description \in SummariesOf(DescB)
    /\ docs["D1"].updated_at = 2

\* C25: in choosing_description accepting the summary sets raw_description
\* to the summary text and moves to photos; choosing the original sets it
\* to the transcript, moves to photos and starts the background summary;
\* re-record returns to description with both candidates discarded.
C25_ChoiceMovesOn ==
    [][\A s \in Sessions :
          /\ HandleDescSummaryRegistration(s)
                => /\ state'[s] = "photos"
                   /\ data'[s].raw_description = data[s].summary_description
          /\ HandleDescOriginalRegistration(s)
                => /\ state'[s] = "photos"
                   /\ data'[s].raw_description = data[s].original_description
                   /\ Len(tasks'[s]) = Len(tasks[s]) + 1
          /\ HandleDescRerecordRegistration(s)
                => /\ state'[s] = "description"
                   /\ data'[s].original_description = None
                   /\ data'[s].summary_description = None]_vars

\* C26: Back in Register moves exactly one step to the predecessor
\* (manufacturer to origin, model to manufacturer, description to model,
\* choosing_description and photos to description, videos to photos),
\* writes nothing to the store and changes nothing in the Draft, except
\* that from choosing_description it clears the two candidates.
C26_BackOneStep ==
    [][\A s \in Sessions :
          ( /\ HandleRegBack(s)
            /\ state[s] \in {"manufacturer", "model", "description",
                             "choosing_description", "photos", "videos"} )
          => /\ << state[s], state'[s] >> \in
                    { << "manufacturer", "origin" >>,
                      << "model", "manufacturer" >>,
                      << "description", "model" >>,
                      << "choosing_description", "description" >>,
                      << "photos", "description" >>,
                      << "videos", "photos" >> }
             /\ data'[s] = IF state[s] = "choosing_description"
                           THEN [data[s] EXCEPT !.original_description = None,
                                                !.summary_description = None]
                           ELSE data[s]
             /\ store' = store]_vars

\* C26 witness: Back was pressed in photos: the session is in description
\* and the Draft still has the description collected before.
C26_Witness ==
    /\ state[1] = "description"
    /\ reply[1] = Reply("back", "description")
    /\ data[1].raw_description = Some(DescA)
    /\ data[1].model = Some("X1")

\* C27: a voice message either moves the session to the choosing state
\* with both candidates stored, or, when the transcript is empty or short
\* or an error occurs, leaves it in the description state with no
\* candidate stored.
C27_NoCandidateWithoutChoice ==
    [][\A s \in Sessions :
          ( \E heard \in {None, Some("crack"), Some(DescA), Some(DescB)},
               o \in SummaryOutcomes(DescA) \cup SummaryOutcomes(DescB),
               shown \in BOOLEAN :
               \/ ProcessDescriptionVoice(s, VoiceMsg("voice1"), heard, o,
                                          shown)
               \/ ProcessEditDescriptionVoice(s, VoiceMsg("voice1"), heard,
                                              o, shown) )
          => \/ /\ state'[s] \in {"choosing_description",
                                  "choosing_edit_description"}
                /\ data'[s].original_description # None
                /\ data'[s].summary_description # None
             \/ /\ state'[s] = state[s]
                /\ data'[s] = data[s]]_vars

\* C28: a typed description of valid length moves the session to photos
\* without waiting for the summarizer, so photos with no summary in the
\* Draft is reachable; from there, when the AI call returns, the
\* background task eventually writes summary_description into the Draft,
\* unless the session is cleared first.
C28_BackgroundSummaryLands ==
    \A s \in Sessions :
        ( /\ state[s] = "photos"
          /\ data[s].summary_description = None
          /\ \E i \in DOMAIN tasks[s] : ~tasks[s][i].orphan )
        ~> ( \/ data[s].summary_description # None
             \/ data[s].raw_description = None )

\* C28 witness: the typed description is accepted and the session is in
\* photos while its summary task is still running: the Draft has no summary.
C28_Witness ==
    /\ state[1] = "photos"
    /\ data[1].raw_description = Some(DescA)
    /\ data[1].summary_description = None
    /\ Len(tasks[1]) = 1
    /\ ~tasks[1][1].orphan

\* C30: media are optional.  In photos Continue is taken whether the photo
\* list is empty or not and moves to videos with the list as it is; in
\* videos every video is appended as it comes, with no quality check; and
\* Finish starts Finalize whether the video list is empty or not.
C30_MediaOptional ==
    /\ [](\A s \in Sessions :
             Ready(s) =>
                /\ state[s] = "photos" => ENABLED HandlePhotosNext(s)
                /\ ( /\ state[s] = "videos"
                     /\ CounterValue < MaxNumber /\ clock < MaxClock )
                       => ENABLED HandleVideosFinish(s))
    /\ [][\A s \in Sessions :
             /\ HandlePhotosNext(s)
                   => /\ state'[s] = "videos"
                      /\ data'[s].photo_file_ids = data[s].photo_file_ids
             /\ ProcessVideo(s, VideoMsg("V"))
                   => /\ state'[s] = "videos"
                      /\ data'[s].video_file_ids =
                             Append(data[s].video_file_ids, "V")
             /\ HandleVideosFinish(s) => pc'[s] # "idle"]_vars

\* C30 witness: a defect was registered with no photo and no video: its
\* record is stored with both lists empty.
C30_Witness ==
    /\ "D1" \in DOMAIN docs
    /\ docs["D1"].photos = << >>
    /\ docs["D1"].videos = << >>
    /\ state[1] = "none"

\* C31: summarize_defect_text never returns more than SummaryCap (500)
\* characters; when the AI is not configured or its call raises, it
\* returns the stripped input cut to FallbackLen (300) characters, which
\* is not empty for an input of at least 10 non-blank characters.
C31_SummaryLengths ==
    [][\A s \in Sessions, i \in 1 .. MaxTasks :
          \A o \in UNION {SummaryOutcomes(Xs(n)) :
                            n \in {MinDescriptionLen, FallbackLen,
                                   FallbackLen + 1, SummaryCap,
                                   SummaryCap + 1}} :
              GenerateSummaryAndStore(s, i, o)
              => LET text == tasks[s][i].text
                     summary == Val(data'[s].summary_description)
                 IN
                 /\ Len(summary) <= 500
                 /\ (~Configured \/ o = None)
                       => /\ Len(summary) = Min(300, Len(text))
                          /\ summary = SubSeq(text, 1, Len(summary))
                          /\ summary # ""]_vars

\* C31 witness: an AI answer longer than 500 characters was cut: the Draft
\* has a summary of exactly 500 characters for a longer description.
C31_Witness ==
    /\ data[1].summary_description # None
    /\ Len(Val(data[1].summary_description)) = 500
    /\ Len(Val(data[1].raw_description)) > 500

\* C32: every photo the gate accepts is in the Draft's photo list exactly
\* once and in arrival order, also when the photos of an album are being
\* checked at the same time: an accepted photo extends the list by itself
\* and the list is never out of the order of arrival (A before B).
C32_AlbumInArrivalOrder ==
    /\ [](data[1].photo_file_ids \in
              {<< >>, << "A" >>, << "B" >>, << "A", "B" >>})
    /\ [][\A k \in 1 .. MaxMedia :
             ( /\ \E gate \in PhotoOutcomes :
                      ProcessPhotoGated(1, k, gate)
               /\ reply'[1].kind = "photo_accepted" )
             => data'[1].photo_file_ids =
                    Append(data[1].photo_file_ids,
                           loc[1].gating[k].file_id)]_vars

\* C33: an origin selection by button changes a session only when it is
\* in origin; in every other state it leaves the state and the data of
\* the session unchanged.
C33_OriginButtonOnlyInOrigin ==
    [][\A s \in Sessions :
          ( /\ state[s] # "origin"
            /\ ProcessOriginCallback(s, "customer") )
          => /\ state' = state
             /\ data' = data]_vars

\* C34: a press of an Edit-flow control (the edit Back and edit Cancel
\* buttons) on a session in a Register state leaves the Register state and
\* the Draft as they were.
C34_EditControlsInertInRegister ==
    [][\A s \in Sessions :
          ( /\ state[s] \in {"origin", "manufacturer", "model", "description",
                             "choosing_description", "photos", "videos"}
            /\ (HandleEditCancel(s) \/ HandleEditBack(s)) )
          => /\ state' = state
             /\ data' = data]_vars

\* C35: a flow-entry command sent in any state of the conversation puts the
\* session in the first state of the command's flow (/register_defect in
\* Origin, /view_defect in View.WaitingForId, /edit_defect in
\* Edit.WaitingForId) with empty data, and writes nothing to the store.
C35_EntryCommandRestarts ==
    [][\A s \in Sessions :
          /\ CmdRegisterDefect(s)
                => /\ state'[s] = "origin"
                   /\ data'[s] = EmptyData
                   /\ store' = store
          /\ (CmdViewDefect(s) \/ DeliverText(s, TextMsg("/view_defect")))
                => /\ state'[s] = "view_waiting_for_id"
                   /\ data'[s] = EmptyData
                   /\ store' = store
          /\ (CmdEditDefect(s) \/ DeliverText(s, TextMsg("/edit_defect")))
                => /\ state'[s] = "edit_waiting_for_id"
                   /\ data'[s] = EmptyData
                   /\ store' = store]_vars

\* C36: every step that takes a session from Description or
\* ChoosingDescription to Photos leaves it with an empty photo list; every
\* step from Photos to Videos leaves it with an empty video list; and the
\* step Back from Videos to Photos leaves the photo list as it was.
C36_MediaListsOnEntry ==
    [][\A s \in Sessions :
          /\ ( /\ state[s] \in {"description", "choosing_description"}
               /\ state'[s] = "photos" )
                => data'[s].photo_file_ids = << >>
          /\ (state[s] = "photos" /\ state'[s] = "videos")
                => /\ data'[s].video_file_ids = << >>
                   /\ data'[s].photo_file_ids = data[s].photo_file_ids
          /\ (state[s] = "videos" /\ state'[s] = "photos")
                => data'[s].photo_file_ids = data[s].photo_file_ids]_vars

\* C36 witness: the user went Back from Videos and is in Photos again with
\* both photos accepted before, and with the video sent in Videos still in
\* the data.
C36_Witness ==
    /\ state[1] = "photos"
    /\ reply[1] = Reply("back", "photos")
    /\ data[1].photo_file_ids = << "A", "B" >>
    /\ data[1].video_file_ids = << "V" >>

\* C37: a step of an editing session that writes a document writes the
\* document of the record being edited and no other; the written document
\* is the one loaded at edit start with the aspect of the current edit
\* state replaced (the manufacturer, the model, the description with its
\* summary, the photos, or the videos) and updated_at set; id, created_at,
\* user_id and origin are those the stored record had; and an edit of a
\* text aspect touches no blob.
C37_EditChangesOneAspect ==
    [][\A s \in Sessions :
          (state[s] \in EditStates /\ docs' # docs)
          => LET id == Val(data[s].defect_id)
                 loaded == Val(data[s].defect_data)
                 new == docs'[id]
             IN
             /\ DOMAIN docs' = DOMAIN docs
             /\ \A other \in DOMAIN docs \ {id} : docs'[other] = docs[other]
             /\ new.id = docs[id].id
             /\ new.created_at = docs[id].created_at
             /\ new.user_id = docs[id].user_id
             /\ new.origin = docs[id].origin
             /\ state[s] \in {"edit_manufacturer", "edit_model",
                              "edit_description", "choosing_edit_description",
                              "edit_photos", "edit_videos"}
             /\ state[s] = "edit_manufacturer"
                   => new = [loaded EXCEPT !.manufacturer = new.manufacturer,
                                           !.updated_at = new.updated_at]
             /\ state[s] = "edit_model"
                   => new = [loaded EXCEPT !.model = new.model,
                                           !.updated_at = new.updated_at]
             /\ state[s] \in {"edit_description", "choosing_edit_description"}
                   => new = [loaded EXCEPT
                                !.raw_description = new.raw_description,
                                !.summary_description = new.summary_description,
                                !.updated_at = new.updated_at]
             /\ state[s] = "edit_photos"
                   => new = [loaded EXCEPT !.photos = new.photos,
                                           !.updated_at = new.updated_at]
             /\ state[s] = "edit_videos"
                   => new = [loaded EXCEPT !.videos = new.videos,
                                           !.updated_at = new.updated_at]
             /\ state[s] \notin {"edit_photos", "edit_videos"}
                   => blobs' = blobs]_vars

\* C37 witness: the videos of D1 were edited and saved: the stored record
\* has the new video and is otherwise, but for updated_at, the record that
\* was stored before.
C37_Witness ==
    /\ state[1] = "none"
    /\ reply[1] = Reply("updated", "media")
    /\ docs["D1"].videos # << >>
    /\ docs["D1"] = [StoredRecord EXCEPT !.videos = docs["D1"].videos,
                                         !.updated_at = 2]

\* C38: the step of a finalization that stores its record stores it under
\* an identifier no stored record has: nothing persisted is overwritten.
C38_FinalizeNeverOverwrites ==
    [][\A s \in Sessions :
          (pc[s] = "fin_save" /\ docs' # docs)
          => /\ loc[s].defect_id \notin DOMAIN docs
             /\ \A id \in DOMAIN docs : docs'[id] = docs[id]]_vars

\* The photos and videos lists of the record id of ds agree with the blobs
\* bs: the listed filenames are exactly the names of the photo_ and video_
\* blobs in the folder of id.
ListsAgree(ds, bs, id) ==
    Filenames(ds[id].photos) \cup Filenames(ds[id].videos)
        = {b.filename : b \in {c \in bs :
                                 /\ c.id = id
                                 /\ \/ StartsWith(c.filename, "photo_")
                                    \/ StartsWith(c.filename, "video_")}}

\* C39: when a media save or a finalization has written its document and
\* ended with its success message, the lists of the record it was about
\* agree with the blobs of its folder, whatever the delete and the uploads
\* of the step did.
C39_ListsAgreeWithStore ==
    [][\A s \in Sessions :
          /\ ( /\ state[s] \in {"edit_photos", "edit_videos"}
               /\ reply'[s] = Reply("updated", "media")
               /\ docs' # docs )
                => ListsAgree(docs', blobs', Val(data[s].defect_id))
          /\ ( /\ pc[s] = "fin_save"
               /\ reply'[s] = Reply("accepted", loc[s].defect_id)
               /\ docs' # docs )
                => ListsAgree(docs', blobs', loc[s].defect_id)]_vars

\* The registration of session 1 is over and the store holds exactly one
\* record.
RegisteredOnce ==
    /\ state[1] = "none"
    /\ pc[1] = "idle"
    /\ Cardinality(DOMAIN docs) = 1

\* C40: a registration that was started comes, from every Register state
\* it is in, to an idle session with exactly one new record in the store.
C40_RegistrationTerminates ==
    \A st \in {"origin", "manufacturer", "model", "description",
               "choosing_description", "photos", "videos"} :
        (state[1] = st) ~> RegisteredOnce

====
